---- MODULE Spec2Model ----
(***************************************************************************)
(* A model of the client-side core of pravega-client-rust.                 *)
(*                                                                         *)
(* Part 1: the reader-group state (reader_group/reader_group_state.rs).    *)
(* Every mutation is an update function over a Table; the table            *)
(* synchronizer runs it on a copy of its cache and commits the staged      *)
(* inserts and tombstones only when the function returns Ok.               *)
(***************************************************************************)
EXTENDS Integers, Sequences, FiniteSets, TLC

\* ------------------------------------------------------------------ bounds

\* Offset.read and Offset.processed are u64; callers supply values in 0..Max*.
MaxRead == 0
MaxProcessed == 1
\* Largest number of entries in a caller-supplied HashMap argument.
MaxEntries == 1
\* Byte streams: i64 and u64 are held in I64_BITS bits (two's complement).
I64_BITS == 4
\* PendingEvent::MAX_WRITE_SIZE and CHANNEL_CAPACITY, scaled down.
MAX_WRITE_SIZE == 1
CHANNEL_CAPACITY == 1
\* Longest buffer of one write call, number of write calls and of connection
\* faults (WrongHost, lost connection) in a run.
MaxBuf == 2
MaxWrites == 2
MaxFaults == 1
\* Longest segment and largest read buffer in SpecSeek.
MaxTail == 3

\* TableMap: pairs or keys in one call; versions the table segment hands out.
MaxKvps == 1

MaxVersion == 2

\* ------------------------------------------------------------ basic values

Readers == {"r1", "r2"}

ASSIGNED == "assigned_segments"
UNASSIGNED == "unassigned_segments"
FUTURE == "future_segments"
DISTANCE == "distance_to_tail"

\* The value add_reader stores in distance_to_tail (u64::MAX, kept symbolic).
U64_MAX == "u64::MAX"

OffsetNew(read, processed) == [read |-> read, processed |-> processed]

Offsets == {OffsetNew(rd, pr) : rd \in 0..MaxRead, pr \in 0..MaxProcessed}

\* Result<Option<String>, SynchronizerError>, plus the outcome of a panic.
None == <<>>

Some(v) == <<v>>

Ok(v) == [kind |-> "Ok", msg |-> "", val |-> v]

Err(msg) == [kind |-> "Err", msg |-> msg, val |-> None]

Panic(msg) == [kind |-> "Panic", msg |-> msg, val |-> None]

Range(seq) == {seq[i] : i \in DOMAIN seq}

\* HashMap insert / remove on a map held as a function.
Put(m, k, v) == [x \in (DOMAIN m) \cup {k} |-> IF x = k THEN v ELSE m[x]]

Del(m, k) == [x \in (DOMAIN m) \ {k} |-> m[x]]

\* The offsets callers supply in SpecConcurrent.
ConcurrentOffsets == {OffsetNew(1, 0)}

\* All maps from at most MaxEntries keys of D to values of V.
SmallMaps(D, V) == UNION {[S -> V] : S \in {X \in SUBSET D : Cardinality(X) <= MaxEntries}}

\* --------------------------------------------------------- stream topology

\* The stream read by the group: segment 0 covers [0,1) and splits into
\* 1 = [0,0.5) and 2 = [0.5,1), which later merge into 3 = [0,1).
\* Keys are held in halves (0, 1, 2 for 0.0, 0.5, 1.0).
SegmentNumbers == {0, 1, 2, 3}

ScopedSegmentOf(n) == [scope |-> "scope", stream |-> "scope", segment |-> n]

ScopedSegments == {ScopedSegmentOf(n) : n \in SegmentNumbers}

MinKey(n) == IF n = 2 THEN 1 ELSE 0

MaxKey(n) == IF n = 1 THEN 1 ELSE 2

SegmentWithRangeOf(n) == [scoped_segment |-> ScopedSegmentOf(n), min_key |-> MinKey(n), max_key |-> MaxKey(n)]

AllSegments == {SegmentWithRangeOf(n) : n \in SegmentNumbers}

\* The predecessors the controller lists for a segment (Vec<Segment>).
Predecessors(n) == CASE n = 1 -> <<0>> [] n = 2 -> <<0>> [] n = 3 -> <<1, 2>> [] OTHER -> <<>>

\* The controller's answer for a completed segment: its successors mapped to
\* their predecessors.
SuccessorsOf(completed) == [t \in {s \in AllSegments : completed.scoped_segment.segment \in Range(Predecessors(s.scoped_segment.segment))} |-> Predecessors(t.scoped_segment.segment)]

\* SegmentWithRange <-> table key (segment.to_string(), SegmentWithRange::from).
to_string(s) == <<s.scoped_segment.scope, s.scoped_segment.stream, s.scoped_segment.segment, s.min_key, s.max_key>>

from_str(k) == [scoped_segment |-> [scope |-> k[1], stream |-> k[2], segment |-> k[3]], min_key |-> k[4], max_key |-> k[5]]

\* ------------------------------------------------------------------- Table

\* A Table: the outer map of inner maps, and the keys staged for the commit.
EmptyMap == <<>>

TableNew(map) == [map |-> map, insert |-> {}]

contains_key(table, outer, inner) == inner \in DOMAIN table.map[outer]

get_inner_map(table, outer) == table.map[outer]

TableInsert(table, outer, inner, value) == [map |-> [table.map EXCEPT ![outer] = Put(@, inner, value)], insert |-> table.insert \cup {<<outer, inner>>}]

\* table.insert for every <<inner key, value>> pair of a loop over a map.
TableInsertEach(table, outer, pairs) == [map |-> [table.map EXCEPT ![outer] = [k \in (DOMAIN @) \cup {p[1] : p \in pairs} |-> IF \E p \in pairs : p[1] = k THEN (CHOOSE p \in pairs : p[1] = k)[2] ELSE @[k]]], insert |-> table.insert \cup {<<outer, p[1]>> : p \in pairs}]

\* insert_tombstone fails when the key is not in the table.
TombstoneOk(table, outer, inner) == inner \in DOMAIN table.map[outer]

TableInsertTombstone(table, outer, inner) == [map |-> [table.map EXCEPT ![outer] = Del(@, inner)], insert |-> table.insert \cup {<<outer, inner>>}]

TableInsertTombstoneEach(table, outer, inners) == [map |-> [table.map EXCEPT ![outer] = [k \in (DOMAIN @) \ inners |-> @[k]]], insert |-> table.insert \cup {<<outer, k>> : k \in inners}]

\* ------------------------------------------------------ ReaderGroupState

check_reader_online(assigned, reader) == reader \in DOMAIN assigned

get_reader_owned_segments_from_table(table, reader) == get_inner_map(table, ASSIGNED)[reader]

get_unassigned_segments_from_table(table) == [s \in {from_str(k) : k \in DOMAIN get_inner_map(table, UNASSIGNED)} |-> get_inner_map(table, UNASSIGNED)[to_string(s)]]

get_future_segments_from_table(table) == [s \in {from_str(k) : k \in DOMAIN get_inner_map(table, FUTURE)} |-> get_inner_map(table, FUTURE)[to_string(s)]]

\* Faulty variant: the mutation of a reader that is not online is ignored.
NotOnlineIgnored(table) == [ret |-> Ok(None), table |-> table]

NotOnline(table) == [ret |-> Err("reader is not online"), table |-> table]

\* Faulty variant: add_reader without the "already online" check.
add_reader_internal_clobber(table, reader) == [ret |-> Ok(None), table |-> TableInsert(TableInsert(table, ASSIGNED, reader, EmptyMap), DISTANCE, reader, U64_MAX)]

add_reader_internal(table, reader) ==
  IF contains_key(table, ASSIGNED, reader)
  THEN [ret |-> Err("reader already online"), table |-> table]
  ELSE LET t1 == TableInsert(table, ASSIGNED, reader, EmptyMap)
           t2 == TableInsert(t1, DISTANCE, reader, U64_MAX)
       IN  [ret |-> Ok(None), table |-> t2]

\* Faulty variant: positions of segments the reader does not own are added.
update_reader_positions_internal_adopt(table, reader, latest_positions) ==
  IF ~check_reader_online(get_inner_map(table, ASSIGNED), reader) THEN NotOnline(table)
  ELSE LET owned_segments == get_reader_owned_segments_from_table(table, reader)
           updated == [s \in (DOMAIN owned_segments) \cup (DOMAIN latest_positions) |->
                         IF s \in DOMAIN latest_positions THEN latest_positions[s] ELSE owned_segments[s]]
       IN  [ret |-> Ok(None), table |-> TableInsert(table, ASSIGNED, reader, updated)]

update_reader_positions_internal(table, reader, latest_positions) ==
  IF ~check_reader_online(get_inner_map(table, ASSIGNED), reader) THEN NotOnline(table)
  ELSE LET owned_segments == get_reader_owned_segments_from_table(table, reader)
           updated == [s \in DOMAIN owned_segments |->
                         IF s \in DOMAIN latest_positions
                         THEN [owned_segments[s] EXCEPT !.read = latest_positions[s].read,
                                                        !.processed = latest_positions[s].processed]
                         ELSE owned_segments[s]]
       IN  [ret |-> Ok(None), table |-> TableInsert(table, ASSIGNED, reader, updated)]

\* Faulty variant: remove_reader ignores the caller's latest offsets.
released_offset_stored(owned_segments, segment, pos) == pos

\* The offset remove_reader stores for a segment of the reader.
released_offset(owned_segments, segment, pos) == IF segment.scoped_segment \in DOMAIN owned_segments THEN owned_segments[segment.scoped_segment] ELSE pos

\* Faulty variant: remove_reader leaves the assigned_segments row behind.
remove_reader_tombstones_distance_only(table, reader) == [ret |-> Ok(None), table |-> TableInsertTombstone(table, DISTANCE, reader)]

\* Faulty variant: remove_reader leaves the distance_to_tail row behind.
remove_reader_tombstones_assigned_only(table, reader) == [ret |-> Ok(None), table |-> TableInsertTombstone(table, ASSIGNED, reader)]

remove_reader_tombstones(table, reader) ==
  IF ~TombstoneOk(table, ASSIGNED, reader)
  THEN [ret |-> Err("tombstone"), table |-> table]
  ELSE LET t1 == TableInsertTombstone(table, ASSIGNED, reader)
       IN  IF ~TombstoneOk(t1, DISTANCE, reader)
           THEN [ret |-> Err("tombstone"), table |-> t1]
           ELSE [ret |-> Ok(None), table |-> TableInsertTombstone(t1, DISTANCE, reader)]

\* Faulty variant: remove_reader forgets the segments the reader owned.
remove_reader_internal_forgetting(table, reader, owned_segments) ==
  IF ~check_reader_online(get_inner_map(table, ASSIGNED), reader) THEN NotOnline(table)
  ELSE remove_reader_tombstones(table, reader)

remove_reader_internal(table, reader, owned_segments) ==
  IF ~check_reader_online(get_inner_map(table, ASSIGNED), reader) THEN NotOnline(table)
  ELSE LET assigned_segments == get_reader_owned_segments_from_table(table, reader)
           t1 == TableInsertEach(table, UNASSIGNED,
                   {<<to_string(s), released_offset(owned_segments, s, assigned_segments[s])>> : s \in DOMAIN assigned_segments})
       IN  remove_reader_tombstones(t1, reader)

\* Faulty variant: an assigned segment restarts at offset (0, 0).
assigned_offset_reset(unassigned_segments, segment) == OffsetNew(0, 0)

\* The offset the assigned segment gets in the reader's map.
assigned_offset(unassigned_segments, segment) == unassigned_segments[segment]

\* Faulty variant: the assigned segment is not tombstoned from unassigned.
assign_segment_to_reader_internal_keep(table, reader, pick) ==
  IF ~check_reader_online(get_inner_map(table, ASSIGNED), reader) THEN NotOnline(table)
  ELSE IF DOMAIN get_unassigned_segments_from_table(table) = {} THEN [ret |-> Ok(None), table |-> table]
  ELSE [ret |-> Ok(Some(pick.scoped_segment.segment)),
        table |-> TableInsert(table, ASSIGNED, reader,
                    Put(get_reader_owned_segments_from_table(table, reader), pick, get_unassigned_segments_from_table(table)[pick]))]

\* pick: the key that segments.pop() yields (HashMap order is arbitrary).
assign_segment_to_reader_internal(table, reader, pick) ==
  IF ~check_reader_online(get_inner_map(table, ASSIGNED), reader) THEN NotOnline(table)
  ELSE LET assigned_segments == get_reader_owned_segments_from_table(table, reader)
           unassigned_segments == get_unassigned_segments_from_table(table)
       IN  IF DOMAIN unassigned_segments = {} THEN [ret |-> Ok(None), table |-> table]
           ELSE LET segment == pick
                    offset == assigned_offset(unassigned_segments, segment)
                    t1 == TableInsert(table, ASSIGNED, reader, Put(assigned_segments, segment, offset))
                IN  IF ~TombstoneOk(t1, UNASSIGNED, to_string(segment))
                    THEN [ret |-> Err("tombstone"), table |-> t1]
                    ELSE [ret |-> Ok(Some(segment.scoped_segment.segment)),
                          table |-> TableInsertTombstone(t1, UNASSIGNED, to_string(segment))]

\* Faulty variant: the released segment keeps the offset stored for the reader.
release_segment_internal_stored(table, reader, segment, offset) ==
  IF ~check_reader_online(get_inner_map(table, ASSIGNED), reader) THEN NotOnline(table)
  ELSE LET assigned_segments == get_reader_owned_segments_from_table(table, reader)
           to_remove_list == {s \in DOMAIN assigned_segments : s.scoped_segment = segment}
       IN  IF Cardinality(to_remove_list) # 1
           THEN [ret |-> Err("should contain only one segment in assigned list"), table |-> table]
           ELSE LET to_remove_segment == CHOOSE s \in to_remove_list : TRUE
                    t1 == TableInsert(table, ASSIGNED, reader, Del(assigned_segments, to_remove_segment))
                IN  [ret |-> Ok(None),
                     table |-> TableInsert(t1, UNASSIGNED, to_string(to_remove_segment), assigned_segments[to_remove_segment])]

release_segment_internal(table, reader, segment, offset) ==
  IF ~check_reader_online(get_inner_map(table, ASSIGNED), reader) THEN NotOnline(table)
  ELSE LET assigned_segments == get_reader_owned_segments_from_table(table, reader)
           unassigned_segments == get_unassigned_segments_from_table(table)
           to_remove_list == {s \in DOMAIN assigned_segments : s.scoped_segment = segment}
       IN  IF Cardinality(to_remove_list) # 1
           THEN [ret |-> Err("should contain only one segment in assigned list"), table |-> table]
           ELSE LET to_remove_segment == CHOOSE s \in to_remove_list : TRUE
                IN  IF to_remove_segment \in DOMAIN unassigned_segments
                    THEN [ret |-> Err("unassigned_segment should not have already contained this released segment"), table |-> table]
                    ELSE LET t1 == TableInsert(table, ASSIGNED, reader, Del(assigned_segments, to_remove_segment))
                         IN  [ret |-> Ok(None),
                              table |-> TableInsert(t1, UNASSIGNED, to_string(to_remove_segment), offset)]

\* Faulty variant: every successor is (re-)inserted, already in future or not.
missing_successors_all(future_segments, successors) == DOMAIN successors

\* The successors segment_completed adds to future_segments.
missing_successors(future_segments, successors) == {s \in DOMAIN successors : s \notin DOMAIN future_segments}

\* Faulty variant: the completed segment stays in the predecessor sets.
without_completed_kept(required_to_complete, segment_completed) == required_to_complete

\* A predecessor set once the completed segment is taken out of it.
without_completed(required_to_complete, segment_completed) == required_to_complete \ {segment_completed.scoped_segment.segment}

\* Faulty variant: no successor is ever found ready.
ready_to_read_never(future_segments) == {}

\* The successors whose predecessors have all completed.
ready_to_read(future_segments) == {s \in DOMAIN future_segments : future_segments[s] = {}}

segment_completed_internal(table, reader, segment_completed, successors) ==
  IF ~check_reader_online(get_inner_map(table, ASSIGNED), reader) THEN NotOnline(table)
  ELSE LET assigned_segments == get_reader_owned_segments_from_table(table, reader)
           future_segments == get_future_segments_from_table(table)
       IN  IF segment_completed \notin DOMAIN assigned_segments
           THEN [ret |-> Panic("should have assigned this segment to reader"), table |-> table]
           ELSE LET t1 == TableInsert(table, ASSIGNED, reader, Del(assigned_segments, segment_completed))
                    missing == missing_successors(future_segments, successors)
                    t2 == TableInsertEach(t1, FUTURE, {<<to_string(s), Range(successors[s])>> : s \in missing})
                    future2 == [s \in (DOMAIN future_segments) \cup missing |->
                                  IF s \in missing THEN Range(successors[s]) ELSE future_segments[s]]
                    changed == {s \in DOMAIN future2 : segment_completed.scoped_segment.segment \in future2[s]}
                    future3 == [s \in DOMAIN future2 |-> without_completed(future2[s], segment_completed)]
                    t3 == TableInsertEach(t2, FUTURE, {<<to_string(s), future3[s]>> : s \in changed})
                    ready == ready_to_read(future3)
                    t4 == TableInsertEach(t3, UNASSIGNED, {<<to_string(s), OffsetNew(0, 0)>> : s \in ready})
                IN  IF \E s \in ready : ~TombstoneOk(t4, FUTURE, to_string(s))
                    THEN [ret |-> Err("tombstone"), table |-> t4]
                    ELSE [ret |-> Ok(None),
                          table |-> TableInsertTombstoneEach(t4, FUTURE, {to_string(s) : s \in ready})]

\* --- ReaderGroupState::new
SCOPED_SYNCHRONIZER_STREAM == "scoped_synchronizer_stream"

CONFIG == "config"

DEFAULT_INNER_KEY == "default"

\* The table of a reader group before its first handle is created.
EmptyTable == [outer \in {SCOPED_SYNCHRONIZER_STREAM, CONFIG, ASSIGNED, UNASSIGNED, FUTURE, DISTANCE} |-> EmptyMap]

\* Table::is_empty: the table holds no entry.
is_empty(table) == \A outer \in DOMAIN table.map : table.map[outer] = EmptyMap

\* Faulty variant: the table is initialized whether it is empty or not.
ReaderGroupStateNewAlways(table, scoped_synchronizer_stream, config, segments_to_offsets) ==
  LET t1 == TableInsert(table, SCOPED_SYNCHRONIZER_STREAM, DEFAULT_INNER_KEY, scoped_synchronizer_stream)
      t2 == TableInsert(t1, CONFIG, DEFAULT_INNER_KEY, config)
  IN  [ret |-> Ok(None),
       table |-> TableInsertEach(t2, UNASSIGNED, {<<to_string(s), segments_to_offsets[s]>> : s \in DOMAIN segments_to_offsets})]

\* The update function ReaderGroupState::new hands to sync.insert.
ReaderGroupStateNew(table, scoped_synchronizer_stream, config, segments_to_offsets) ==
  IF is_empty(table)
  THEN LET t1 == TableInsert(table, SCOPED_SYNCHRONIZER_STREAM, DEFAULT_INNER_KEY, scoped_synchronizer_stream)
           t2 == TableInsert(t1, CONFIG, DEFAULT_INNER_KEY, config)
       IN  [ret |-> Ok(None),
            table |-> TableInsertEach(t2, UNASSIGNED, {<<to_string(s), segments_to_offsets[s]>> : s \in DOMAIN segments_to_offsets})]
  ELSE [ret |-> Ok(None), table |-> table]

\* A key's entry in a map of maps, <<>> when there is none.
Entry(map, key) == IF key[2] \in DOMAIN map[key[1]] THEN <<map[key[1]][key[2]]>> ELSE <<>>

\* ------------------------------------------------------------ byte stream
(***************************************************************************)
(* Part 2: the byte stream (byte_stream.rs) on top of the segment reactor  *)
(* (reactor/reactors.rs). The segment writer, the pending event, the       *)
(* metadata client, the segment reader and the server are not part of the  *)
(* sources at hand and follow the design document.                         *)
(***************************************************************************)

\* std::io::Result of the byte stream's calls: Ok(value), Err(error) or a
\* panic; Unit stands for the value of Ok(()).
Unit == 0

IoOk(v) == [kind |-> "Ok", msg |-> "", val |-> v]

IoErr(msg) == [kind |-> "Err", msg |-> msg, val |-> Unit]

IoPanic(msg) == [kind |-> "Panic", msg |-> msg, val |-> Unit]

Pow2(n) == 2^n

I64_MIN == 0 - Pow2(I64_BITS - 1)

I64_MAX == Pow2(I64_BITS - 1) - 1

U64_LIMIT == Pow2(I64_BITS)

I64 == I64_MIN..I64_MAX

U64 == 0..(U64_LIMIT - 1)

\* `x as i64` and `x as u64`: two's complement reinterpretation.
as_i64(x) == ((x + Pow2(I64_BITS - 1)) % U64_LIMIT) - Pow2(I64_BITS - 1)

as_u64(x) == x % U64_LIMIT

min(a, b) == IF a <= b THEN a ELSE b

\* std::io::SeekFrom
SeekFromStart(n) == [kind |-> "Start", arg |-> n]

SeekFromCurrent(n) == [kind |-> "Current", arg |-> n]

SeekFromEnd(n) == [kind |-> "End", arg |-> n]

SeekFrom == {SeekFromStart(n) : n \in U64} \cup {SeekFromCurrent(n) : n \in I64} \cup {SeekFromEnd(n) : n \in I64}

\* The outcome of a seek: what is returned and the reader's offset afterwards.
SeekResult(ret, offset) == [ret |-> ret, offset |-> offset]

\* `a + b` on i64: an overflow panics in a build with overflow checks and
\* wraps in one without; sums holds the values the addition can evaluate to
\* and panics tells whether it can panic.
checked_add(a, b) == [sums |-> {as_i64(a + b)}, panics |-> (a + b) \notin I64]

Overflow(offset) == SeekResult(IoPanic("attempt to add with overflow"), offset)

\* Faulty variant: Current(d) is resolved against the start of the segment.
seek_current_from_start(offset, d, tail) ==
  IF d < 0 THEN {SeekResult(IoErr("Cannot seek to a negative offset"), offset)}
  ELSE IF d > tail THEN {SeekResult(IoErr("Seek offset that exceeds segment length"), offset)}
  ELSE {SeekResult(IoOk(as_u64(d)), d)}

seek_current(offset, d, tail) ==
  {IF new_offset < 0 THEN SeekResult(IoErr("Cannot seek to a negative offset"), offset)
   ELSE IF new_offset > tail THEN SeekResult(IoErr("Seek offset that exceeds segment length"), offset)
   ELSE SeekResult(IoOk(as_u64(new_offset)), new_offset) : new_offset \in checked_add(offset, d).sums}
  \cup (IF checked_add(offset, d).panics THEN {Overflow(offset)} ELSE {})

\* Faulty variant: Start(o) moves the reader before it checks the tail.
seek_start_moving_first(offset, o, tail) ==
  IF as_i64(o) > tail THEN {SeekResult(IoErr("Seek offset that exceeds segment length"), as_i64(o))}
  ELSE {SeekResult(IoOk(as_u64(as_i64(o))), as_i64(o))}

seek_start(offset, o, tail) ==
  IF as_i64(o) > tail THEN {SeekResult(IoErr("Seek offset that exceeds segment length"), offset)}
  ELSE {SeekResult(IoOk(as_u64(as_i64(o))), as_i64(o))}

\* Faulty variant: End(d) returns the resolved offset and leaves the reader
\* where it was.
seek_end_unmoved(offset, d, tail) ==
  IF d > 0 THEN {SeekResult(IoErr("Seek offset that exceeds segment length"), offset)}
  ELSE {IF new_offset < 0 THEN SeekResult(IoErr("Cannot seek to a negative offset"), offset)
        ELSE SeekResult(IoOk(as_u64(new_offset)), offset) : new_offset \in checked_add(tail, d).sums}
       \cup (IF checked_add(tail, d).panics THEN {Overflow(offset)} ELSE {})

seek_end(offset, d, tail) ==
  IF d > 0 THEN {SeekResult(IoErr("Seek offset that exceeds segment length"), offset)}
  ELSE {IF new_offset < 0 THEN SeekResult(IoErr("Cannot seek to a negative offset"), offset)
        ELSE SeekResult(IoOk(as_u64(new_offset)), new_offset) : new_offset \in checked_add(tail, d).sums}
       \cup (IF checked_add(tail, d).panics THEN {Overflow(offset)} ELSE {})

\* ByteStreamReader::seek once the tail has been fetched.
seek(offset, pos, tail) ==
  CASE pos.kind = "Start" -> seek_start(offset, pos.arg, tail)
    [] pos.kind = "Current" -> seek_current(offset, pos.arg, tail)
    [] pos.kind = "End" -> seek_end(offset, pos.arg, tail)

\* --- oneshot channels: one per chunk, named by its position in `oneshot`.
\* "Empty": nothing sent yet; "Ok": acknowledged; "Closed": the sender was
\* dropped; otherwise the SegmentWriterError that was sent.
oneshot_channel(o) == Append(o, "Empty")

oneshot_error(o, e) == Append(o, e)

oneshot_send(o, handle, v) == IF o[handle] = "Empty" THEN [o EXCEPT ![handle] = v] ELSE o

\* Dropping senders: their receivers see a RecvError.
oneshot_drop(o, handles) == [h \in DOMAIN o |-> IF h \in handles /\ o[h] = "Empty" THEN "Closed" ELSE o[h]]

\* --- Incoming: what travels on the reactor's channel.
AppendEvent(data, handle) == [type |-> "AppendEvent", data |-> data, handle |-> handle, reply |-> "", event_number |-> 0]

ServerReply(reply, event_number) == [type |-> "ServerReply", data |-> <<>>, handle |-> 0, reply |-> reply, event_number |-> event_number]

CloseSegmentWriter(close_reactor) == [type |-> "CloseSegmentWriter", close_reactor |-> close_reactor]

CloseReactor == [type |-> "CloseReactor"]

Replies == {"DataAppended", "SegmentIsSealed", "NoSuchSegment", "WrongHost", "Unexpected"}

\* --- SegmentWriter (design document 4.1): w = [pending, inflight,
\* event_num_counter, closing, reconnects], c = the connection [state, wire],
\* o = the oneshots. reconnects counts the calls of reconnect.
SegmentWriterNew == [pending |-> <<>>, inflight |-> <<>>, event_num_counter |-> 0, closing |-> FALSE, reconnects |-> 0]

\* state: "up", "down" (lost), "wrong_host" (the server no longer owns the
\* segment: requests on this connection are not served) or "closed" (handed
\* back by the closing writer).
ConnectionNew == [state |-> "up", wire |-> <<>>]

Append_request(e) == [event_number |-> e.event_number, data |-> e.data]

Requests(events) == [i \in DOMAIN events |-> Append_request(events[i])]

\* write_pending_events: every pending event goes out on the connection and
\* becomes inflight; fails when the connection is down.
write_pending_events(w, c) ==
  IF c.state = "down" THEN [w |-> w, c |-> c, ok |-> FALSE]
  ELSE [w |-> [w EXCEPT !.inflight = @ \o w.pending, !.pending = <<>>],
        c |-> [c EXCEPT !.wire = @ \o Requests(w.pending)],
        ok |-> TRUE]

\* write(event): the event gets the next event number and is sent or buffered.
segment_writer_write(w, c, data, handle) ==
  LET number == w.event_num_counter + 1
      w1 == [w EXCEPT !.event_num_counter = number,
                      !.pending = Append(@, [event_number |-> number, data |-> data, handle |-> handle])]
  IN  write_pending_events(w1, c)

\* Faulty variant: an acknowledgment removes the acknowledged event only.
acked_events_exact(inflight, event_number) == {i \in DOMAIN inflight : inflight[i].event_number = event_number}

\* The inflight events an acknowledgment of event_number covers.
acked_events(inflight, event_number) == {i \in DOMAIN inflight : inflight[i].event_number <= event_number}

\* ack(event_number): the inflight events up to it complete with success.
ack(w, o, event_number) ==
  LET acked == acked_events(w.inflight, event_number)
  IN  [w |-> [w EXCEPT !.inflight = SelectSeq(@, LAMBDA e : \A i \in acked : w.inflight[i] # e)],
       o |-> [h \in DOMAIN o |-> IF o[h] = "Empty" /\ \E i \in acked : w.inflight[i].handle = h THEN "Ok" ELSE o[h]]]

\* Faulty variant: a reconnect re-sends every inflight event, acknowledged by
\* the server or not, as new data.
resend_all(inflight, last_event_number) == [i \in DOMAIN inflight |-> [event_number |-> last_event_number + i, data |-> inflight[i].data]]

\* The requests a reconnect re-sends: the inflight events in order.
resend(inflight, last_event_number) == Requests(inflight)

\* reconnect: a new connection; AppendSetup{last_event_number} acknowledges
\* the inflight events the server has, the others are re-sent in order, then
\* pending is drained.
reconnect(w, c, o, last_event_number) ==
  LET a == ack(w, o, last_event_number)
      c1 == [state |-> "up", wire |-> resend(a.w.inflight, last_event_number)]
      r == write_pending_events(a.w, c1)
  IN  [w |-> [r.w EXCEPT !.reconnects = @ + 1], c |-> r.c, o |-> a.o]

\* Faulty variant: try_close answers TRUE whatever the writer still holds.
try_close_at_once(w) ==
  {[w |-> w, ret |-> TRUE]}

\* try_close: FALSE with the writer marked as closing, its shutdown deferred
\* until it has drained; a writer without inflight and pending events may
\* also answer TRUE.
try_close(w) ==
  {[w |-> [w EXCEPT !.closing = TRUE], ret |-> FALSE]}
    \cup (IF w.inflight = <<>> /\ w.pending = <<>> THEN {[w |-> w, ret |-> TRUE]} ELSE {})

\* --- the segment reactor (reactors.rs). A step's result: the writer, the
\* connection, the oneshots and Ok or Err(reason).
Step(w, c, o, ret) == [w |-> w, c |-> c, o |-> o, ret |-> ret]

\* Faulty variant: DataAppended sends the pending events and acknowledges
\* nothing.
process_server_reply_without_ack(w, c, o, msg, last_event_number) ==
  CASE msg.reply = "DataAppended" ->
         LET r == write_pending_events(w, c)
         IN  IF r.ok THEN Step(r.w, r.c, o, Ok(None))
             ELSE LET rc == reconnect(r.w, r.c, o, last_event_number) IN Step(rc.w, rc.c, rc.o, Ok(None))
    [] msg.reply = "SegmentIsSealed" -> Step(w, c, o, Err("Segment is sealed"))
    [] msg.reply = "NoSuchSegment" -> Step(w, c, o, Err("No such segment"))
    [] msg.reply = "WrongHost" ->
         LET rc == reconnect(w, c, o, last_event_number) IN Step(rc.w, rc.c, rc.o, Ok(None))
    [] OTHER -> Step(w, c, o, Err("Unexpected reply"))

\* Faulty variant: WrongHost ends the reactor as SegmentIsSealed does.
process_server_reply_wrong_host_fatal(w, c, o, msg, last_event_number) ==
  CASE msg.reply = "DataAppended" ->
         LET a == ack(w, o, msg.event_number)
             r == write_pending_events(a.w, c)
         IN  IF r.ok THEN Step(r.w, r.c, a.o, Ok(None))
             ELSE LET rc == reconnect(r.w, r.c, a.o, last_event_number) IN Step(rc.w, rc.c, rc.o, Ok(None))
    [] msg.reply = "SegmentIsSealed" -> Step(w, c, o, Err("Segment is sealed"))
    [] msg.reply = "NoSuchSegment" -> Step(w, c, o, Err("No such segment"))
    [] OTHER -> Step(w, c, o, Err("Unexpected reply"))

process_server_reply(w, c, o, msg, last_event_number) ==
  CASE msg.reply = "DataAppended" ->
         LET a == ack(w, o, msg.event_number)
             r == write_pending_events(a.w, c)
         IN  IF r.ok THEN Step(r.w, r.c, a.o, Ok(None))
             ELSE LET rc == reconnect(r.w, r.c, a.o, last_event_number) IN Step(rc.w, rc.c, rc.o, Ok(None))
    [] msg.reply = "SegmentIsSealed" -> Step(w, c, o, Err("Segment is sealed"))
    [] msg.reply = "NoSuchSegment" -> Step(w, c, o, Err("No such segment"))
    [] msg.reply = "WrongHost" ->
         LET rc == reconnect(w, c, o, last_event_number) IN Step(rc.w, rc.c, rc.o, Ok(None))
    [] OTHER -> Step(w, c, o, Err("Unexpected reply"))

\* drain_recevier: the receiver is closed and every AppendEvent left in the
\* queue is failed with ReactorClosed; sending to a oneshot whose receiver is
\* gone panics (expect("send error")) and the rest of the queue is dropped.
\* alive: the oneshots whose receiver the byte-stream writer still holds.
first_dead(queue, alive) ==
  LET dead == {i \in DOMAIN queue : queue[i].type = "AppendEvent" /\ queue[i].handle \notin alive}
  IN  IF dead = {} THEN Len(queue) + 1 ELSE CHOOSE i \in dead : \A j \in dead : i <= j

drain_recevier(queue, o, alive) ==
  LET stop == first_dead(queue, alive)
      failed == {queue[i].handle : i \in {j \in DOMAIN queue : j < stop /\ queue[j].type = "AppendEvent"}}
      dropped == {queue[i].handle : i \in {j \in DOMAIN queue : j >= stop /\ queue[j].type = "AppendEvent"}}
  IN  oneshot_drop([h \in DOMAIN o |-> IF h \in failed /\ o[h] = "Empty" THEN "ReactorClosed" ELSE o[h]], dropped)

\* Faulty variant: CloseReactor ends the reactor whatever try_close answers.
run_once_close_at_once(w, c, o, event, last_event_number, closed) ==
  CASE event.type = "AppendEvent" ->
         LET r == segment_writer_write(w, c, event.data, event.handle)
         IN  IF r.ok THEN Step(r.w, r.c, o, Ok(None))
             ELSE LET rc == reconnect(r.w, r.c, o, last_event_number) IN Step(rc.w, rc.c, rc.o, Ok(None))
    [] event.type = "ServerReply" -> process_server_reply(w, c, o, event, last_event_number)
    [] event.type = "CloseSegmentWriter" ->
         Step(w, c, o, IF event.close_reactor THEN Err("close segment reactor") ELSE Ok(None))
    [] event.type = "CloseReactor" -> Step(closed.w, c, o, Err("close segment reactor"))

\* closed: what try_close answers in the CloseReactor arm.
run_once(w, c, o, event, last_event_number, closed) ==
  CASE event.type = "AppendEvent" ->
         LET r == segment_writer_write(w, c, event.data, event.handle)
         IN  IF r.ok THEN Step(r.w, r.c, o, Ok(None))
             ELSE LET rc == reconnect(r.w, r.c, o, last_event_number) IN Step(rc.w, rc.c, rc.o, Ok(None))
    [] event.type = "ServerReply" -> process_server_reply(w, c, o, event, last_event_number)
    [] event.type = "CloseSegmentWriter" ->
         Step(w, c, o, IF event.close_reactor THEN Err("close segment reactor") ELSE Ok(None))
    [] event.type = "CloseReactor" ->
         Step(closed.w, c, o, IF closed.ret THEN Err("close segment reactor") ELSE Ok(None))

\* --- the server's side of the segment.
SegmentNew == [data |-> <<>>, sealed |-> FALSE, head |-> 0, last_event_number |-> 0]

\* An append: refused on a sealed segment, acknowledged without effect when
\* its event number was already appended, else appended.
server_append(seg, request) ==
  IF seg.sealed THEN [seg |-> seg, reply |-> ServerReply("SegmentIsSealed", 0)]
  ELSE IF request.event_number <= seg.last_event_number
  THEN [seg |-> seg, reply |-> ServerReply("DataAppended", seg.last_event_number)]
  ELSE [seg |-> [seg EXCEPT !.data = @ \o request.data, !.last_event_number = request.event_number],
        reply |-> ServerReply("DataAppended", request.event_number)]

\* --- the read path. The reply to a read of len bytes at offset: an error
\* below the head or outside the segment, end_of_segment at the tail of a
\* sealed segment, else some bytes from offset on: fewer than, as many as or
\* more than asked for; a reply that reaches the tail of a sealed segment
\* may carry end_of_segment with its bytes. At the tail of an open segment
\* the read waits.
ReadReply(data, end_of_segment) == [kind |-> "Ok", data |-> data, end_of_segment |-> end_of_segment]

ReadError == [kind |-> "Err", data |-> <<>>, end_of_segment |-> FALSE]

segment_read(seg, offset, len) ==
  IF offset < seg.head \/ offset > Len(seg.data) THEN {ReadError}
  ELSE IF offset = Len(seg.data) THEN (IF seg.sealed THEN {ReadReply(<<>>, TRUE)} ELSE {})
  ELSE {ReadReply(SubSeq(seg.data, offset + 1, offset + k), FALSE) : k \in 1..min(Len(seg.data) - offset, len + 1)}
       \cup (IF seg.sealed THEN {ReadReply(SubSeq(seg.data, offset + 1, Len(seg.data)), TRUE)} ELSE {})

\* Faulty variant: every byte of the reply is delivered, also those beyond
\* the buffer's length.
read_all(offset, len, result) ==
  IF result.kind = "Ok"
  THEN IF result.end_of_segment
       THEN [ret |-> IoErr("segment is sealed"), buf |-> <<>>, offset |-> offset]
       ELSE [ret |-> IoOk(Len(result.data)), buf |-> result.data, offset |-> offset + Len(result.data)]
  ELSE [ret |-> IoErr("read error"), buf |-> <<>>, offset |-> offset]

\* ByteStreamReader::read on the reader's reply: what is returned, the bytes
\* copied to buf and the offset afterwards.
read(offset, len, result) ==
  IF result.kind = "Ok"
  THEN IF result.end_of_segment
       THEN [ret |-> IoErr("segment is sealed"), buf |-> <<>>, offset |-> offset]
       ELSE LET size_to_return == min(len, Len(result.data))
            IN  [ret |-> IoOk(size_to_return), buf |-> SubSeq(result.data, 1, size_to_return), offset |-> offset + size_to_return]
  ELSE [ret |-> IoErr("read error"), buf |-> <<>>, offset |-> offset]

\* --- the stream reactor's SegmentSelector (design document 4.2): writers
\* and conns, each writer with its connection, by segment number; and
\* current_segments, the segment that covers each half of the key space.
\* A routing key is held as the half it hashes into.
Halves == {0, 1}

PendingEvent(routing_key, data, handle) == [routing_key |-> routing_key, data |-> data, handle |-> handle]

AppendPendingEvent(event) == [type |-> "AppendEvent", routing_key |-> event.routing_key, data |-> event.data, handle |-> event.handle]

SegmentReply(segment, reply, event_number) == [type |-> "ServerReply", segment |-> segment, reply |-> reply, event_number |-> event_number]

WriterInfo(segment, close_reactor) == [type |-> "CloseSegmentWriter", segment |-> segment, close_reactor |-> close_reactor]

\* The selector after initialize(): one writer, for the stream's only segment.
SegmentSelectorNew == [writers |-> Put(EmptyMap, 0, SegmentWriterNew), conns |-> Put(EmptyMap, 0, ConnectionNew), current_segments |-> [h \in Halves |-> 0]]

\* The controller's successors of a segment.
get_successors(n) == {t \in SegmentNumbers : n \in Range(Predecessors(t))}

\* get_segment_writer: the segment whose range contains the key; its writer
\* is constructed when missing.
get_segment_writer(selector, routing_key) == selector.current_segments[routing_key]

create_missing_writers(selector, segments) ==
  [selector EXCEPT !.writers = [n \in DOMAIN @ \cup segments |-> IF n \in DOMAIN @ THEN @[n] ELSE SegmentWriterNew],
                   !.conns = [n \in DOMAIN @ \cup segments |-> IF n \in DOMAIN @ THEN @[n] ELSE ConnectionNew]]

\* write(event) of the writer the key selects: the event gets the writer's
\* next event number and is sent or buffered; ok tells whether it was sent.
selector_write(selector, event) ==
  LET n == get_segment_writer(selector, event.routing_key)
      s1 == create_missing_writers(selector, {n})
      w == s1.writers[n]
      number == w.event_num_counter + 1
      w1 == [w EXCEPT !.event_num_counter = number,
                      !.pending = Append(@, [event_number |-> number, data |-> event.data, handle |-> event.handle, routing_key |-> event.routing_key])]
      r == write_pending_events(w1, s1.conns[n])
  IN  [selector |-> [s1 EXCEPT !.writers[n] = r.w, !.conns[n] = r.c], segment |-> n, ok |-> r.ok]

\* reconnect of the writer of segment n; stores: the segments on the server.
selector_reconnect(selector, o, n, stores) ==
  LET rc == reconnect(selector.writers[n], selector.conns[n], o, stores[n].last_event_number)
  IN  [selector |-> [selector EXCEPT !.writers[n] = rc.w, !.conns[n] = rc.c], o |-> rc.o]

\* Successor promotion: None when the segment has no successors; otherwise
\* the successors take over its part of the key space, a writer is created
\* for each new segment and the sealed writer's events that are not yet
\* acknowledged are handed back, inflight before pending.
refresh_segment_event_writers_upon_sealed(selector, n) ==
  LET successors == get_successors(n)
      current == [h \in Halves |-> IF selector.current_segments[h] = n
                                   THEN CHOOSE t \in successors : MinKey(t) <= h /\ h < MaxKey(t)
                                   ELSE selector.current_segments[h]]
  IN  IF successors = {} THEN [selector |-> selector, inflight |-> None]
      ELSE [selector |-> [create_missing_writers(selector, successors) EXCEPT !.current_segments = current],
            inflight |-> Some(selector.writers[n].inflight \o selector.writers[n].pending)]

\* Resend: every event is enqueued, in order, into the writer its routing
\* key selects.
RECURSIVE selector_resend(_, _)
selector_resend(selector, events) ==
  IF events = <<>> THEN selector
  ELSE selector_resend(selector_write(selector, PendingEvent(Head(events).routing_key, Head(events).data, Head(events).handle)).selector, Tail(events))

remove_segment_event_writer(selector, n) == [selector EXCEPT !.writers = Del(@, n), !.conns = Del(@, n)]

\* --- the stream reactor (reactors.rs). A step's result: the selector, the
\* oneshots and Ok, Err(reason) or the panic of an expect.
StreamStep(selector, o, ret) == [selector |-> selector, o |-> o, ret |-> ret]

\* Faulty variant: the events of the sealed writer are not re-sent.
stream_process_server_reply_without_resend(selector, o, msg, stores) ==
  IF msg.segment \notin DOMAIN selector.writers
  THEN StreamStep(selector, o, Panic("should always be able to get event segment writer"))
  ELSE CASE msg.reply = "DataAppended" ->
              LET a == ack(selector.writers[msg.segment], o, msg.event_number)
                  r == write_pending_events(a.w, selector.conns[msg.segment])
                  s1 == [selector EXCEPT !.writers[msg.segment] = r.w, !.conns[msg.segment] = r.c]
              IN  IF r.ok THEN StreamStep(s1, a.o, Ok(None))
                  ELSE LET rc == selector_reconnect(s1, a.o, msg.segment, stores) IN StreamStep(rc.selector, rc.o, Ok(None))
         [] msg.reply \in {"SegmentIsSealed", "NoSuchSegment"} ->
              LET refreshed == refresh_segment_event_writers_upon_sealed(selector, msg.segment)
              IN  IF refreshed.inflight # None
                  THEN StreamStep(remove_segment_event_writer(refreshed.selector, msg.segment), o, Ok(None))
                  ELSE StreamStep(selector, o, Err("Stream is sealed"))
         [] msg.reply = "WrongHost" ->
              LET rc == selector_reconnect(selector, o, msg.segment, stores) IN StreamStep(rc.selector, rc.o, Ok(None))
         [] OTHER -> StreamStep(selector, o, Err("Unexpected reply"))

\* StreamReactor::process_server_reply.
stream_process_server_reply(selector, o, msg, stores) ==
  IF msg.segment \notin DOMAIN selector.writers
  THEN StreamStep(selector, o, Panic("should always be able to get event segment writer"))
  ELSE CASE msg.reply = "DataAppended" ->
              LET a == ack(selector.writers[msg.segment], o, msg.event_number)
                  r == write_pending_events(a.w, selector.conns[msg.segment])
                  s1 == [selector EXCEPT !.writers[msg.segment] = r.w, !.conns[msg.segment] = r.c]
              IN  IF r.ok THEN StreamStep(s1, a.o, Ok(None))
                  ELSE LET rc == selector_reconnect(s1, a.o, msg.segment, stores) IN StreamStep(rc.selector, rc.o, Ok(None))
         [] msg.reply \in {"SegmentIsSealed", "NoSuchSegment"} ->
              LET refreshed == refresh_segment_event_writers_upon_sealed(selector, msg.segment)
              IN  IF refreshed.inflight # None
                  THEN StreamStep(remove_segment_event_writer(selector_resend(refreshed.selector, refreshed.inflight[1]), msg.segment), o, Ok(None))
                  ELSE StreamStep(selector, o, Err("Stream is sealed"))
         [] msg.reply = "WrongHost" ->
              LET rc == selector_reconnect(selector, o, msg.segment, stores) IN StreamStep(rc.selector, rc.o, Ok(None))
         [] OTHER -> StreamStep(selector, o, Err("Unexpected reply"))

\* StreamReactor::run_once on the event taken from the channel. closed: what
\* try_close answers for each writer in the CloseReactor arm.
stream_run_once(selector, o, event, stores, closed) ==
  CASE event.type = "AppendEvent" ->
         LET r == selector_write(selector, PendingEvent(event.routing_key, event.data, event.handle))
         IN  IF r.ok THEN StreamStep(r.selector, o, Ok(None))
             ELSE LET rc == selector_reconnect(r.selector, o, r.segment, stores) IN StreamStep(rc.selector, rc.o, Ok(None))
    [] event.type = "ServerReply" -> stream_process_server_reply(selector, o, event, stores)
    [] event.type = "CloseSegmentWriter" ->
         LET s1 == remove_segment_event_writer(selector, event.segment)
         IN  StreamStep(s1, o, IF DOMAIN s1.writers = {} /\ event.close_reactor THEN Err("stream reactor is closed") ELSE Ok(None))
    [] event.type = "CloseReactor" ->
         StreamStep([selector EXCEPT !.writers = [n \in DOMAIN @ |-> closed[n].w]], o,
                    IF \A n \in DOMAIN selector.writers : closed[n].ret THEN Err("stream reactor is closed") ELSE Ok(None))

\* StreamReactor::run before its loop: the selector initialized, no segment
\* of the stream sealed yet.
StreamNew == [running |-> TRUE, panicked |-> FALSE, selector |-> SegmentSelectorNew, stores |-> [n \in SegmentNumbers |-> SegmentNew], epoch |-> 0, taken |-> None]

\* --- TableMap (tablemap.rs). Keys and values are Rust values, named by
\* their literals; bincode writes () as no bytes and a bool as one byte.
TableKeys == {"false", "true"}

TableValues == {"()", "false", "true"}

TableTypes == {"()", "bool"}

ValuesOf(type) == IF type = "()" THEN {"()"} ELSE {"false", "true"}

serialize(v) == CASE v = "()" -> <<>> [] v = "false" -> <<0>> [] OTHER -> <<1>>

\* deserialize_from reads a value of the type the caller names from the
\* front of the bytes; val is None when the bytes do not hold one.
deserialize_from(data, type) ==
  CASE type = "()" -> Ok("()")
    [] data # <<>> /\ Head(data) = 0 -> Ok("false")
    [] data # <<>> /\ Head(data) = 1 -> Ok("true")
    [] OTHER -> Panic("error during deserialization")

\* TableKey::KEY_NO_VERSION and the version of a key that does not exist.
KEY_NO_VERSION == I64_MIN

NOT_EXISTS == 0 - 1

\* --- the table segment on the server: the entry of every key, with the
\* version the server gave it, and the next version.
TableSegmentNew == [entries |-> EmptyMap, next |-> 0]

key_version(seg, key) == IF key \in DOMAIN seg.entries THEN seg.entries[key].version ELSE NOT_EXISTS

last_entry(entries, key) == CHOOSE i \in DOMAIN entries : entries[i].key = key /\ \A j \in DOMAIN entries : entries[j].key = key => j <= i

\* UpdateTableEntries: all entries or none; an entry with a version is
\* written only when that is the key's version.
table_update(seg, entries) ==
  IF \E i \in DOMAIN entries : entries[i].version # KEY_NO_VERSION /\ entries[i].version # key_version(seg, entries[i].key)
  THEN [seg |-> seg, reply |-> [type |-> "TableKeyBadVersion", versions |-> <<>>, entries |-> <<>>]]
  ELSE LET keys == {entries[i].key : i \in DOMAIN entries}
       IN  [seg |-> [entries |-> [k \in DOMAIN seg.entries \cup keys |->
                                   IF k \in keys
                                   THEN [data |-> entries[last_entry(entries, k)].data, version |-> seg.next + last_entry(entries, k) - 1]
                                   ELSE seg.entries[k]],
                     next |-> seg.next + Len(entries)],
            reply |-> [type |-> "TableEntriesUpdated", versions |-> [i \in DOMAIN entries |-> seg.next + i - 1], entries |-> <<>>]]

\* ReadTable: an entry for every key asked for; a key without an entry is
\* answered with no data.
table_read(seg, keys) ==
  [type |-> "TableRead", versions |-> <<>>,
   entries |-> [i \in DOMAIN keys |-> IF keys[i] \in DOMAIN seg.entries
                                      THEN [key_version |-> seg.entries[keys[i]].version, data |-> seg.entries[keys[i]].data]
                                      ELSE [key_version |-> NOT_EXISTS, data |-> <<>>]]]

\* RemoveTableKeys: without a version the key is removed, present or not;
\* with a version the key must exist with that version.
table_remove(seg, key, version) ==
  IF version = KEY_NO_VERSION \/ (key \in DOMAIN seg.entries /\ version = key_version(seg, key))
  THEN [seg |-> [seg EXCEPT !.entries = Del(@, key)], reply |-> [type |-> "TableKeysRemoved", versions |-> <<>>, entries |-> <<>>]]
  ELSE IF key \notin DOMAIN seg.entries
  THEN [seg |-> seg, reply |-> [type |-> "TableKeyDoesNotExist", versions |-> <<>>, entries |-> <<>>]]
  ELSE [seg |-> seg, reply |-> [type |-> "TableKeyBadVersion", versions |-> <<>>, entries |-> <<>>]]

\* --- the client's side. re: what send_request returned, Ok(reply) or Err.
ConnectionError == Err("ConnectionError")

insert_raw_values(re) ==
  IF re.kind # "Ok" THEN ConnectionError
  ELSE CASE re.val.type = "TableEntriesUpdated" -> Ok(re.val.versions)
         [] re.val.type = "TableKeyBadVersion" -> Err("IncorrectKeyVersion")
         [] OTHER -> Panic("Unexpected response for update tableEntries")

get_raw_values(re) ==
  IF re.kind # "Ok" THEN ConnectionError
  ELSE CASE re.val.type = "TableRead" ->
              IF re.val.entries = <<>> THEN Panic("Invalid response from the Segment store")
              ELSE Ok([i \in DOMAIN re.val.entries |-> <<re.val.entries[i].data, re.val.entries[i].key_version>>])
         [] OTHER -> Panic("Unexpected response for update tableEntries")

remove_raw_value(re) ==
  IF re.kind # "Ok" THEN ConnectionError
  ELSE CASE re.val.type = "TableKeysRemoved" -> Ok(None)
         [] re.val.type = "TableKeyBadVersion" -> Err("IncorrectKeyVersion")
         [] re.val.type = "TableKeyDoesNotExist" -> Err("KeyDoesNotExist")
         [] OTHER -> Panic("Unexpected response while deleting keys")

\* The request of insert_all: every pair serialized, without a version.
insert_all_entries(kvps) == [i \in DOMAIN kvps |-> [key |-> serialize(kvps[i][1]), data |-> serialize(kvps[i][2]), version |-> KEY_NO_VERSION]]

\* Faulty variant: the key is removed under the version of a key that does
\* not exist.
remove_key_versioned(k) == [key |-> serialize(k), version |-> NOT_EXISTS]

\* The key remove asks to be removed: without a version.
remove_key(k) == [key |-> serialize(k), version |-> KEY_NO_VERSION]

get_all_keys(keys) == [i \in DOMAIN keys |-> serialize(keys[i])]

\* get_all on the result of get_raw_values, for values of the given type:
\* an entry without data is None.
get_all(read_result, type) ==
  IF read_result.kind # "Ok" THEN read_result
  ELSE IF \E i \in DOMAIN read_result.val : read_result.val[i][1] # <<>> /\ deserialize_from(read_result.val[i][1], type).kind # "Ok"
  THEN Panic("error during deserialization")
  ELSE Ok([i \in DOMAIN read_result.val |->
            IF read_result.val[i][1] = <<>> THEN None
            ELSE Some(<<deserialize_from(read_result.val[i][1], type).val, read_result.val[i][2]>>)])

\* TableMap::new on a new table segment. written: for every key, the value,
\* its type and the version of the last insert the server applied; existed:
\* whether the key of the last remove had an entry.
TableMapNew == [seg |-> TableSegmentNew, op |-> "new", args |-> <<>>, type |-> "()", ret |-> Ok(<<>>), written |-> EmptyMap, existed |-> FALSE]

\* ------------------------------------------------------------------ state

VARIABLES
  table,     \* the reader-group table on the server: outer key -> inner key -> value
  last,      \* the last call: [op, reader, ret]
  reported,  \* numbers of the segments reported by a committed segment_completed
  cache,     \* per synchronizer handle: its local copy of the table
  stale,     \* per handle: the keys whose cached version is not the server's
  bsw,       \* the ByteStreamWriter, the call it is in and what it last returned
  channel,   \* the reactor's command channel: [queue, closed]
  oneshot,   \* the completion channel of every chunk
  reactor,   \* the reactor task: [running, writer, taken]
  conn,      \* the segment writer's connection: [state, wire]
  segstore,  \* the segment on the server: [data, sealed, head, last_event_number]
  bsr,       \* the ByteStreamReader and what its last call returned
  stream,    \* the stream reactor: [running, panicked, selector, stores, epoch]
  tablemap,  \* the TableMap, its table segment and what its last call returned
  hist       \* bookkeeping: calls made, bytes handed to write, errors returned

rgvars == <<table, last, reported, cache, stale>>

bsvars == <<bsw, channel, oneshot, reactor, conn, segstore, bsr, stream, tablemap, hist>>

vars == <<table, last, reported, cache, stale, bsw, channel, oneshot, reactor, conn, segstore, bsr, stream, tablemap, hist>>

\* The synchronizer handles that share the table in SpecConcurrent: every
\* reader process holds its own ReaderGroupState and names itself in its calls;
\* remove_reader is also called for another (failed) reader.
Handles == Readers

\* ByteStreamWriter::new and ByteStreamReader::new. pc is the place the
\* caller is at; op, ret: the last call that returned and its result.
ByteStreamWriterNew == [event_handle |-> None, pc |-> "idle", buf |-> <<>>, position |-> 0, receiver |-> 0, awaiting |-> 0, chunks |-> <<>>, op |-> "new", ret |-> IoOk(Unit)]

ByteStreamReaderNew == [offset |-> 0, op |-> "new", ret |-> IoOk(Unit), pos |-> SeekFromStart(0), buf |-> <<>>, len |-> 0, contacted |-> FALSE, tail |-> 0, data_path |-> FALSE, received |-> 0]

\* ReaderGroupState::new on an empty table, as in set_up(): one unassigned
\* segment at offset (0, 0).
InitialSegments == [s \in {SegmentWithRangeOf(0)} |-> OffsetNew(0, 0)]

InitialMap == [assigned_segments |-> EmptyMap, unassigned_segments |-> [k \in {to_string(s) : s \in DOMAIN InitialSegments} |-> InitialSegments[from_str(k)]], future_segments |-> EmptyMap, distance_to_tail |-> EmptyMap]

Init ==
  /\ table = InitialMap
  /\ last = [op |-> "new", reader |-> "", ret |-> Ok(None)]
  /\ reported = {}
  /\ cache = [h \in Handles |-> InitialMap]
  /\ stale = [h \in Handles |-> {}]
  /\ bsw = ByteStreamWriterNew
  /\ channel = [queue |-> <<>>, closed |-> FALSE]
  /\ oneshot = <<>>
  /\ reactor = [running |-> TRUE, writer |-> SegmentWriterNew, taken |-> None]
  /\ conn = ConnectionNew
  /\ segstore = SegmentNew
  /\ bsr = ByteStreamReaderNew
  /\ stream = StreamNew
  /\ tablemap = TableMapNew
  /\ hist = [writes |-> 0, wrote |-> 0, faults |-> 0, failed |-> FALSE, sealed |-> FALSE, truncated |-> 0, wrong_hosts |-> 0]

\* The segments a caller can name in a position map: those in the table.
KnownSegments(map) == UNION {DOMAIN map[ASSIGNED][r] : r \in DOMAIN map[ASSIGNED]} \cup {from_str(k) : k \in DOMAIN map[UNASSIGNED]} \cup {from_str(k) : k \in DOMAIN map[FUTURE]}

\* sync.insert(update_fn) by the only handle: the update function runs on a
\* copy of the cache and its staged operations are committed when it returns Ok.
SyncInsert(op, reader, res) ==
  /\ table' = IF res.ret.kind = "Ok" THEN res.table.map ELSE table
  /\ last' = [op |-> op, reader |-> reader, ret |-> res.ret]
  /\ UNCHANGED <<cache, stale>>
  /\ UNCHANGED bsvars

AddReader ==
  \E r \in Readers :
    /\ SyncInsert("add_reader", r, add_reader_internal(TableNew(table), r))
    /\ UNCHANGED reported

UpdateReaderPositions ==
  \E r \in Readers : \E positions \in SmallMaps(KnownSegments(table), Offsets) :
    /\ SyncInsert("update_reader_positions", r, update_reader_positions_internal(TableNew(table), r, positions))
    /\ UNCHANGED reported

RemoveReader ==
  \E r \in Readers : \E owned \in SmallMaps({s.scoped_segment : s \in KnownSegments(table)}, Offsets) :
    /\ SyncInsert("remove_reader", r, remove_reader_internal(TableNew(table), r, owned))
    /\ UNCHANGED reported

AssignSegmentToReader ==
  \E r \in Readers :
    \E pick \in IF DOMAIN table[UNASSIGNED] = {} THEN {SegmentWithRangeOf(0)} ELSE {from_str(k) : k \in DOMAIN table[UNASSIGNED]} :
      /\ SyncInsert("assign_segment_to_reader", r, assign_segment_to_reader_internal(TableNew(table), r, pick))
      /\ UNCHANGED reported

ReleaseSegment ==
  \E r \in Readers : \E s \in ScopedSegments : \E offset \in Offsets :
    /\ SyncInsert("release_segment", r, release_segment_internal(TableNew(table), r, s, offset))
    /\ UNCHANGED reported

SegmentCompleted ==
  \E r \in Readers : \E c \in AllSegments :
    LET res == segment_completed_internal(TableNew(table), r, c, SuccessorsOf(c))
    IN  /\ SyncInsert("segment_completed", r, res)
        /\ reported' = IF res.ret.kind = "Ok" THEN reported \cup {c.scoped_segment.segment} ELSE reported

Next ==
  \/ AddReader
  \/ UpdateReaderPositions
  \/ RemoveReader
  \/ AssignSegmentToReader
  \/ ReleaseSegment
  \/ SegmentCompleted

Spec == Init /\ [][Next]_vars

\* ---------------------------------------- several handles on one table

\* The server's table once the staged inserts and tombstones are applied.
ApplyWrites(server, staged) ==
  [outer \in DOMAIN server |->
     LET written == {w[2] : w \in {x \in staged.insert : x[1] = outer}}
     IN  [k \in ((DOMAIN server[outer]) \ written) \cup (written \cap DOMAIN staged.map[outer]) |->
            IF k \in written THEN staged.map[outer][k] ELSE server[outer][k]]]

BadKeyVersion == [kind |-> "BadKeyVersion", msg |-> "", val |-> None]

\* What SpecConcurrent records of a call that reached the server: whether it
\* was committed ("Ok") or refused ("BadKeyVersion").
Outcome(kind) == [op |-> "insert", reader |-> "", ret |-> [kind |-> kind, msg |-> "", val |-> None]]

\* TableSynchronizer::insert by handle h: res is the update function's result
\* on a copy of h's cache. An error result is returned as it is and nothing
\* is sent. Otherwise the
\* staged keys are submitted with their cached versions: if all are current
\* the server applies them and h's cache takes them over; if one is not, the
\* cache is refreshed and the update function will be invoked again.
ConditionallyWrite(h, res) ==
  IF res.ret.kind # "Ok"
  THEN UNCHANGED <<table, cache, stale, last, bsvars>>
  ELSE IF res.table.insert \cap stale[h] = {}
  THEN /\ UNCHANGED bsvars
       /\ table' = ApplyWrites(table, res.table)
       /\ cache' = [cache EXCEPT ![h] = res.table.map]
       /\ stale' = [g \in Handles |-> IF g = h THEN stale[g] ELSE stale[g] \cup res.table.insert]
       /\ last' = Outcome("Ok")
  ELSE /\ cache' = [cache EXCEPT ![h] = table]
       /\ stale' = [stale EXCEPT ![h] = {}]
       /\ last' = Outcome("BadKeyVersion")
       /\ UNCHANGED <<table, bsvars>>

Committed(h, res) == res.ret.kind = "Ok" /\ res.table.insert \cap stale[h] = {}

\* fetch_updates: the cache becomes the server's current table.
FetchUpdates ==
  \E h \in Handles :
    /\ cache' = [cache EXCEPT ![h] = table]
    /\ stale' = [stale EXCEPT ![h] = {}]
    /\ UNCHANGED <<table, last, reported, bsvars>>

CAddReader ==
  \E h \in Handles : \E r \in {h} :
    /\ ConditionallyWrite(h, add_reader_internal(TableNew(cache[h]), r))
    /\ UNCHANGED reported

CUpdateReaderPositions ==
  \E h \in Handles : \E r \in {h} : \E positions \in SmallMaps(KnownSegments(cache[h]), ConcurrentOffsets) :
    /\ ConditionallyWrite(h, update_reader_positions_internal(TableNew(cache[h]), r, positions))
    /\ UNCHANGED reported

CRemoveReader ==
  \E h \in Handles : \E r \in Readers : \E owned \in SmallMaps({s.scoped_segment : s \in KnownSegments(cache[h])}, ConcurrentOffsets) :
    /\ ConditionallyWrite(h, remove_reader_internal(TableNew(cache[h]), r, owned))
    /\ UNCHANGED reported

CAssignSegmentToReader ==
  \E h \in Handles : \E r \in {h} :
    \E pick \in IF DOMAIN cache[h][UNASSIGNED] = {} THEN {SegmentWithRangeOf(0)} ELSE {from_str(k) : k \in DOMAIN cache[h][UNASSIGNED]} :
      /\ ConditionallyWrite(h, assign_segment_to_reader_internal(TableNew(cache[h]), r, pick))
      /\ UNCHANGED reported

CReleaseSegment ==
  \E h \in Handles : \E r \in {h} : \E s \in ScopedSegments : \E offset \in ConcurrentOffsets :
    /\ ConditionallyWrite(h, release_segment_internal(TableNew(cache[h]), r, s, offset))
    /\ UNCHANGED reported

CSegmentCompleted ==
  \E h \in Handles : \E r \in {h} : \E c \in AllSegments :
    LET res == segment_completed_internal(TableNew(cache[h]), r, c, SuccessorsOf(c))
    IN  /\ ConditionallyWrite(h, res)
        /\ reported' = IF Committed(h, res) THEN reported \cup {c.scoped_segment.segment} ELSE reported

NextConcurrent ==
  \/ FetchUpdates
  \/ CAddReader
  \/ CUpdateReaderPositions
  \/ CRemoveReader
  \/ CAssignSegmentToReader
  \/ CReleaseSegment
  \/ CSegmentCompleted

SpecConcurrent == Init /\ [][NextConcurrent]_vars

\* ------------------------------------------------ byte-stream behaviour

\* The oneshot receivers the byte-stream writer still holds.
ReceiversHeld ==
  (IF bsw.event_handle = None THEN {} ELSE {bsw.event_handle[1]})
    \cup (IF bsw.pc \in {"write", "try_recv"} THEN {bsw.receiver} ELSE {})
    \cup (IF bsw.pc \in {"flush", "seal"} THEN {bsw.awaiting} ELSE {})

\* A writer call returns: its result is kept and an error is remembered.
Returned(w, op, ret) == [w EXCEPT !.pc = "idle", !.op = op, !.ret = ret, !.awaiting = 0]

NoteResult(h, ret) == [h EXCEPT !.failed = @ \/ ret.kind # "Ok"]

\* write(buf) is called with a buffer of n bytes; byte i of all the bytes
\* handed to the writer has the value i.
Write ==
  \E n \in 0..MaxBuf :
    /\ bsw.pc = "idle" /\ hist.writes < MaxWrites /\ hist.wrote + n <= I64_MAX
    /\ bsw' = [bsw EXCEPT !.pc = "write", !.buf = [i \in 1..n |-> hist.wrote + i], !.position = 0, !.receiver = 0, !.chunks = <<>>]
    /\ hist' = [hist EXCEPT !.writes = @ + 1, !.wrote = @ + n]
    /\ UNCHANGED <<rgvars, stream, tablemap, channel, oneshot, reactor, conn, segstore, bsr>>

\* Faulty variant: a chunk is one byte longer than MAX_WRITE_SIZE allows.
chunk_advance_over(len, position) == min(len - position, MAX_WRITE_SIZE + 1)

\* The length of the next chunk.
chunk_advance(len, position) == min(len - position, MAX_WRITE_SIZE)

\* Faulty variant: every chunk is cut from the start of the buffer.
chunk_payload_from_start(buf, position, advance) == SubSeq(buf, 1, advance)

\* The bytes of the next chunk: buf[position..position + advance].
chunk_payload(buf, position, advance) == SubSeq(buf, position + 1, position + advance)

\* Faulty variant: the chunk is put on the channel without waiting for room.
WriteInternalWithoutWaiting ==
  /\ bsw.pc = "write"
  /\ LET advance == chunk_advance(Len(bsw.buf), bsw.position)
         payload == chunk_payload(bsw.buf, bsw.position, advance)
         position == bsw.position + advance
         handle == Len(oneshot) + 1
         pc == IF position = Len(bsw.buf) THEN "try_recv" ELSE "write"
     IN  \/ /\ channel.closed
            /\ oneshot' = oneshot_error(oneshot, "SendToProcessor")
            /\ bsw' = [bsw EXCEPT !.position = position, !.receiver = handle, !.pc = pc]
            /\ UNCHANGED channel
         \/ /\ ~channel.closed
            /\ oneshot' = oneshot_channel(oneshot)
            /\ channel' = [channel EXCEPT !.queue = Append(@, AppendEvent(payload, handle))]
            /\ bsw' = [bsw EXCEPT !.position = position, !.receiver = handle, !.pc = pc, !.chunks = Append(@, payload)]
  /\ UNCHANGED <<rgvars, stream, tablemap, reactor, conn, segstore, bsr, hist>>

\* One turn of the loop in write: write_internal sends the next chunk, or
\* answers with an error receiver when the reactor's channel is closed; the
\* send waits while the channel is full.
WriteInternal ==
  /\ bsw.pc = "write"
  /\ LET advance == chunk_advance(Len(bsw.buf), bsw.position)
         payload == chunk_payload(bsw.buf, bsw.position, advance)
         position == bsw.position + advance
         handle == Len(oneshot) + 1
         pc == IF position = Len(bsw.buf) THEN "try_recv" ELSE "write"
     IN  \/ /\ channel.closed
            /\ oneshot' = oneshot_error(oneshot, "SendToProcessor")
            /\ bsw' = [bsw EXCEPT !.position = position, !.receiver = handle, !.pc = pc]
            /\ UNCHANGED channel
         \/ /\ ~channel.closed /\ Len(channel.queue) < CHANNEL_CAPACITY
            /\ oneshot' = oneshot_channel(oneshot)
            /\ channel' = [channel EXCEPT !.queue = Append(@, AppendEvent(payload, handle))]
            /\ bsw' = [bsw EXCEPT !.position = position, !.receiver = handle, !.pc = pc, !.chunks = Append(@, payload)]
  /\ UNCHANGED <<rgvars, stream, tablemap, reactor, conn, segstore, bsr, hist>>

\* Faulty variant: the handle of a failed chunk is kept and write succeeds.
try_recv_lenient(w, value) == [event_handle |-> Some(w.receiver), ret |-> IoOk(Len(w.buf))]

\* The end of write: try_recv on the last chunk's receiver decides what is
\* returned and which handle the writer retains.
try_recv(w, value) ==
  CASE value = "Empty" -> [event_handle |-> Some(w.receiver), ret |-> IoOk(Len(w.buf))]
    [] value = "Ok" -> [event_handle |-> None, ret |-> IoOk(Len(w.buf))]
    [] value = "Closed" -> [event_handle |-> w.event_handle, ret |-> IoErr("oneshot error")]
    [] OTHER -> [event_handle |-> w.event_handle, ret |-> IoErr(value)]

WriteReturn ==
  /\ bsw.pc = "try_recv"
  /\ LET r == try_recv(bsw, oneshot[bsw.receiver])
     IN  /\ bsw' = Returned([bsw EXCEPT !.event_handle = r.event_handle], "write", r.ret)
         /\ hist' = NoteResult(hist, r.ret)
  /\ UNCHANGED <<rgvars, stream, tablemap, channel, oneshot, reactor, conn, segstore, bsr>>

\* flush_internal on a resolved handle.
flush_result(value) ==
  CASE value = "Ok" -> IoOk(Unit)
    [] value = "Closed" -> IoErr("oneshot error")
    [] OTHER -> IoErr(value)

\* flush: takes the retained handle; without one it returns Ok at once,
\* otherwise it waits for the handle.
Flush ==
  /\ bsw.pc = "idle"
  /\ IF bsw.event_handle = None
     THEN bsw' = Returned(bsw, "flush", IoOk(Unit))
     ELSE bsw' = [bsw EXCEPT !.pc = "flush", !.awaiting = bsw.event_handle[1], !.event_handle = None]
  /\ UNCHANGED hist
  /\ UNCHANGED <<rgvars, stream, tablemap, channel, oneshot, reactor, conn, segstore, bsr>>

FlushReturn ==
  /\ bsw.pc = "flush" /\ oneshot[bsw.awaiting] # "Empty"
  /\ bsw' = Returned(bsw, "flush", flush_result(oneshot[bsw.awaiting]))
  /\ hist' = NoteResult(hist, flush_result(oneshot[bsw.awaiting]))
  /\ UNCHANGED <<rgvars, stream, tablemap, channel, oneshot, reactor, conn, segstore, bsr>>

\* seal: flush_internal on the retained handle, then SealSegment.
Seal ==
  /\ bsw.pc = "idle"
  /\ IF bsw.event_handle = None
     THEN /\ bsw' = Returned(bsw, "seal", IoOk(Unit))
          /\ segstore' = [segstore EXCEPT !.sealed = TRUE]
          /\ hist' = [hist EXCEPT !.sealed = TRUE]
     ELSE /\ bsw' = [bsw EXCEPT !.pc = "seal", !.awaiting = bsw.event_handle[1], !.event_handle = None]
          /\ UNCHANGED <<segstore, hist>>
  /\ UNCHANGED <<rgvars, stream, tablemap, channel, oneshot, reactor, conn, bsr>>

SealReturn ==
  /\ bsw.pc = "seal" /\ oneshot[bsw.awaiting] # "Empty"
  /\ LET ret == flush_result(oneshot[bsw.awaiting])
     IN  /\ bsw' = Returned(bsw, "seal", ret)
         /\ segstore' = IF ret.kind = "Ok" THEN [segstore EXCEPT !.sealed = TRUE] ELSE segstore
         /\ hist' = [NoteResult(hist, ret) EXCEPT !.sealed = @ \/ ret.kind = "Ok"]
  /\ UNCHANGED <<rgvars, stream, tablemap, channel, oneshot, reactor, conn, bsr>>

\* The completion handles of the AppendEvents in a queue.
QueuedHandles(queue) == {queue[i].handle : i \in {j \in DOMAIN queue : queue[j].type = "AppendEvent"}}

\* SegmentReactor::run_once on the event taken from the channel, with rest
\* left on the channel. An Err ends the loop of run. For a server reply
\* run_once has drained the channel before it returns the Err; for
\* CloseSegmentWriter and CloseReactor it has not. Then run returns: the
\* receiver and the segment writer are dropped with the events they still
\* hold.
ReactorHandles(event, rest) ==
  \E closed \in try_close(reactor.writer) :
    LET r == run_once(reactor.writer, conn, oneshot, event, segstore.last_event_number, closed)
        drained == IF event.type = "ServerReply" THEN drain_recevier(rest, r.o, ReceiversHeld) ELSE r.o
    IN  IF r.ret.kind = "Ok"
        THEN /\ reactor' = [reactor EXCEPT !.writer = r.w, !.taken = None]
             /\ conn' = r.c
             /\ oneshot' = r.o
             /\ channel' = [channel EXCEPT !.queue = rest]
        ELSE /\ reactor' = [running |-> FALSE, writer |-> SegmentWriterNew, taken |-> None]
             /\ conn' = [state |-> "down", wire |-> <<>>]
             /\ oneshot' = oneshot_drop(drained, QueuedHandles(rest)
                                                  \cup {e.handle : e \in Range(r.w.inflight) \cup Range(r.w.pending)})
             /\ channel' = [queue |-> <<>>, closed |-> TRUE]

\* SegmentReactor::run: one turn of the loop, the next command taken from
\* the channel and handled.
ReactorRunOnce ==
  /\ reactor.running /\ channel.queue # <<>> /\ reactor.taken = None
  /\ ReactorHandles(Head(channel.queue), Tail(channel.queue))
  /\ UNCHANGED <<rgvars, stream, tablemap, bsw, segstore, bsr, hist>>

\* The same turn in two steps: receiver.recv() hands the next command to
\* the reactor and makes room on the channel; the command is handled when
\* the task runs on.
ReactorRecv ==
  /\ reactor.running /\ channel.queue # <<>> /\ reactor.taken = None
  /\ reactor' = [reactor EXCEPT !.taken = Some(Head(channel.queue))]
  /\ channel' = [channel EXCEPT !.queue = Tail(@)]
  /\ UNCHANGED <<rgvars, stream, tablemap, bsw, oneshot, conn, segstore, bsr, hist>>

ReactorHandle ==
  /\ reactor.running /\ reactor.taken # None
  /\ ReactorHandles(reactor.taken[1], channel.queue)
  /\ UNCHANGED <<rgvars, stream, tablemap, bsw, segstore, bsr, hist>>

\* The reply is handed to the reactor on its channel (dropped when closed).
Deliver(reply) ==
  IF channel.closed THEN UNCHANGED channel
  ELSE /\ Len(channel.queue) < CHANNEL_CAPACITY
       /\ channel' = [channel EXCEPT !.queue = Append(@, reply)]

\* The server serves the next append on the connection.
ServerAppend ==
  /\ conn.state = "up" /\ conn.wire # <<>>
  /\ LET r == server_append(segstore, Head(conn.wire))
     IN  /\ segstore' = r.seg
         /\ Deliver(r.reply)
  /\ conn' = [conn EXCEPT !.wire = Tail(@)]
  /\ UNCHANGED <<rgvars, stream, tablemap, bsw, oneshot, reactor, bsr, hist>>

\* The server no longer owns the segment: it answers WrongHost and serves
\* nothing more on this connection.
ServerWrongHost ==
  /\ conn.state = "up" /\ conn.wire # <<>> /\ hist.faults < MaxFaults
  /\ Deliver(ServerReply("WrongHost", 0))
  /\ conn' = [state |-> "wrong_host", wire |-> <<>>]
  /\ hist' = [hist EXCEPT !.faults = @ + 1, !.wrong_hosts = @ + 1]
  /\ UNCHANGED <<rgvars, stream, tablemap, bsw, oneshot, reactor, segstore, bsr>>

\* The connection is lost, before the next append is served or after it was
\* appended and before its reply left.
ConnectionLost ==
  /\ conn.state = "up" /\ hist.faults < MaxFaults
  /\ \E served \in BOOLEAN :
       IF served
       THEN /\ conn.wire # <<>>
            /\ segstore' = server_append(segstore, Head(conn.wire)).seg
       ELSE UNCHANGED segstore
  /\ conn' = [state |-> "down", wire |-> <<>>]
  /\ hist' = [hist EXCEPT !.faults = @ + 1]
  /\ UNCHANGED <<rgvars, stream, tablemap, bsw, channel, oneshot, reactor, bsr>>

\* ByteStreamReader::seek: the tail is fetched from the metadata client
\* (fetched tells whether that succeeded), then pos is resolved.
ReaderSeek(pos, fetched) ==
  /\ IF ~fetched
     THEN bsr' = [bsr EXCEPT !.op = "seek", !.pos = pos, !.ret = IoErr("fetch_current_segment_length"), !.buf = <<>>, !.len = 0, !.contacted = TRUE, !.tail = Len(segstore.data), !.data_path = FALSE, !.received = 0]
     ELSE \E r \in seek(bsr.offset, pos, Len(segstore.data)) :
            bsr' = [bsr EXCEPT !.op = "seek", !.pos = pos, !.ret = r.ret, !.offset = r.offset, !.buf = <<>>, !.len = 0, !.contacted = TRUE, !.tail = Len(segstore.data), !.data_path = FALSE, !.received = 0]
  /\ UNCHANGED <<rgvars, stream, tablemap, bsw, channel, oneshot, reactor, conn, segstore, hist>>

\* ByteStreamReader::read with a buffer of len bytes.
ReaderRead(len) ==
  /\ \E result \in segment_read(segstore, bsr.offset, len) :
       LET r == read(bsr.offset, len, result)
       IN  bsr' = [bsr EXCEPT !.op = "read", !.ret = r.ret, !.offset = r.offset, !.buf = r.buf, !.len = len, !.contacted = TRUE, !.tail = Len(segstore.data), !.data_path = TRUE, !.received = Len(result.data)]
  /\ UNCHANGED <<rgvars, stream, tablemap, bsw, channel, oneshot, reactor, conn, segstore, hist>>

\* The reader of SpecByteStream reads what the writer has flushed: once the
\* writer's flush or seal has returned it seeks to the start and then reads.
Flushed == bsw.pc = "idle" /\ bsw.op \in {"flush", "seal"}

SeekToStart == Flushed /\ ReaderSeek(SeekFromStart(0), TRUE)

Read == Flushed /\ bsr.op = "seek" /\ \E len \in 1..MaxBuf : ReaderRead(len)

NextByteStream ==
  \/ Write
  \/ WriteInternal
  \/ WriteReturn
  \/ Flush
  \/ FlushReturn
  \/ Seal
  \/ SealReturn
  \/ ReactorRunOnce
  \/ ServerAppend
  \/ ServerWrongHost
  \/ ConnectionLost
  \/ SeekToStart
  \/ Read

SpecByteStream == Init /\ [][NextByteStream]_vars

\* Seeks of every kind on a segment that other writers extend.
SegmentGrows ==
  /\ Len(segstore.data) < MaxTail /\ ~segstore.sealed
  /\ segstore' = [segstore EXCEPT !.data = Append(@, Len(@) + 1)]
  /\ UNCHANGED <<rgvars, stream, tablemap, bsw, channel, oneshot, reactor, conn, bsr, hist>>

SeekAnywhere == \E pos \in SeekFrom : \E fetched \in BOOLEAN : ReaderSeek(pos, fetched)

NextSeek ==
  \/ SegmentGrows
  \/ SeekAnywhere

SpecSeek == Init /\ [][NextSeek]_vars

\* --- the reader on a segment that is extended, truncated and sealed.
\* The server's side of TruncateSegment(t): the head moves up to t when t
\* lies between the head and the tail, a t below the head changes nothing,
\* a t beyond the tail is refused.
server_truncate(seg, t) ==
  IF t > Len(seg.data) THEN [seg |-> seg, ret |-> IoErr("segment truncation error")]
  ELSE [seg |-> [seg EXCEPT !.head = IF t > @ THEN t ELSE @], ret |-> IoOk(Unit)]

\* ByteStreamWriter::truncate_data_before(t): TruncateSegment(t) through
\* the metadata client, its result handed back.
TruncateDataBefore ==
  \E t \in 0..MaxTail :
    LET r == server_truncate(segstore, t)
    IN  /\ bsw.pc = "idle"
        /\ bsw' = Returned(bsw, "truncate_data_before", r.ret)
        /\ segstore' = r.seg
        /\ hist' = [hist EXCEPT !.truncated = IF r.ret.kind = "Ok" /\ t > @ THEN t ELSE @]
        /\ UNCHANGED <<rgvars, stream, tablemap, channel, oneshot, reactor, conn, bsr>>

\* The segment is sealed by its writer.
SegmentSeals ==
  /\ ~segstore.sealed
  /\ segstore' = [segstore EXCEPT !.sealed = TRUE]
  /\ UNCHANGED <<rgvars, stream, tablemap, bsw, channel, oneshot, reactor, conn, bsr, hist>>

\* ByteStreamReader::current_head: the starting offset the metadata client
\* fetched, cast to u64.
current_head(seg) == IoOk(as_u64(seg.head))

CurrentHead ==
  /\ \E fetched \in BOOLEAN :
       bsr' = [bsr EXCEPT !.op = "current_head", !.ret = IF fetched THEN current_head(segstore) ELSE IoErr("fetch_current_starting_head"),
                          !.buf = <<>>, !.len = 0, !.contacted = TRUE, !.data_path = FALSE, !.received = 0]
  /\ UNCHANGED <<rgvars, stream, tablemap, bsw, channel, oneshot, reactor, conn, segstore, hist>>

\* The reader positions itself with seek(Start(o)) and reads from there.
SeekFromTheStart == \E o \in 0..MaxTail : ReaderSeek(SeekFromStart(o), TRUE)

ReadAnywhere == \E len \in 1..MaxBuf : ReaderRead(len)

NextReader ==
  \/ SegmentGrows
  \/ TruncateDataBefore
  \/ SegmentSeals
  \/ SeekFromTheStart
  \/ ReadAnywhere
  \/ CurrentHead

SpecReader == Init /\ [][NextReader]_vars

\* --- the segment reactor with everything that can end it.
\* The server answers the next append with NoSuchSegment (the segment was
\* truncated away) or with a reply the reactor does not expect.
ServerFails ==
  /\ conn.state = "up" /\ conn.wire # <<>> /\ hist.faults < MaxFaults
  /\ \E reply \in {"NoSuchSegment", "Unexpected"} : Deliver(ServerReply(reply, 0))
  /\ conn' = [conn EXCEPT !.wire = Tail(@)]
  /\ hist' = [hist EXCEPT !.faults = @ + 1]
  /\ UNCHANGED <<rgvars, stream, tablemap, bsw, oneshot, reactor, segstore, bsr>>

\* The byte-stream writer is dropped: CloseReactor is sent to the reactor
\* and the receiver the writer retained is gone.
DropWriter ==
  /\ bsw.pc = "idle"
  /\ Deliver(CloseReactor)
  /\ bsw' = [bsw EXCEPT !.pc = "dropped", !.event_handle = None]
  /\ UNCHANGED <<rgvars, stream, tablemap, oneshot, reactor, conn, segstore, bsr, hist>>

\* The closing segment writer has drained: its connection is handed back
\* with CloseSegmentWriter, close_reactor set.
WriterCloses ==
  /\ reactor.running /\ reactor.writer.closing /\ conn.state # "closed"
  /\ reactor.writer.inflight = <<>> /\ reactor.writer.pending = <<>>
  /\ Deliver(CloseSegmentWriter(TRUE))
  /\ conn' = [state |-> "closed", wire |-> <<>>]
  /\ UNCHANGED <<rgvars, stream, tablemap, bsw, oneshot, reactor, segstore, bsr, hist>>

NextReactor ==
  \/ Write
  \/ WriteInternal
  \/ WriteReturn
  \/ Flush
  \/ FlushReturn
  \/ ReactorRunOnce
  \/ ServerAppend
  \/ ServerWrongHost
  \/ ConnectionLost
  \/ ServerFails
  \/ SegmentSeals
  \/ DropWriter
  \/ WriterCloses

SpecReactor == Init /\ [][NextReactor]_vars

\* --- backpressure: the writer, the reactor and the server, whose replies
\* share the channel with the writer's chunks. The reactor's task is
\* scheduled whenever it has something to take; a sender waiting for room on
\* the channel is served in its turn once there is room; a call that can
\* return does.
NextBackpressure ==
  \/ Write
  \/ WriteInternal
  \/ WriteReturn
  \/ ReactorRunOnce
  \/ ServerAppend
  \/ SegmentSeals

SpecBackpressure ==
  /\ Init /\ [][NextBackpressure]_vars
  /\ WF_vars(ReactorRunOnce) /\ SF_vars(WriteInternal) /\ WF_vars(WriteReturn)

\* --- the segment reactor seen step by step: a command is taken from the
\* channel and then handled, and what arrives in between waits on the channel.
\* The channel here has room for one command more than CHANNEL_CAPACITY, so
\* that both chunks of a write can wait behind the reply the reactor handles.
StepsCapacity == CHANNEL_CAPACITY + 1

\* write_internal as in WriteInternal, on the channel of StepsCapacity.
WriteInternalSteps ==
  /\ bsw.pc = "write"
  /\ LET advance == chunk_advance(Len(bsw.buf), bsw.position)
         payload == chunk_payload(bsw.buf, bsw.position, advance)
         position == bsw.position + advance
         handle == Len(oneshot) + 1
         pc == IF position = Len(bsw.buf) THEN "try_recv" ELSE "write"
     IN  \/ /\ channel.closed
            /\ oneshot' = oneshot_error(oneshot, "SendToProcessor")
            /\ bsw' = [bsw EXCEPT !.position = position, !.receiver = handle, !.pc = pc]
            /\ UNCHANGED channel
         \/ /\ ~channel.closed /\ Len(channel.queue) < StepsCapacity
            /\ oneshot' = oneshot_channel(oneshot)
            /\ channel' = [channel EXCEPT !.queue = Append(@, AppendEvent(payload, handle))]
            /\ bsw' = [bsw EXCEPT !.position = position, !.receiver = handle, !.pc = pc, !.chunks = Append(@, payload)]
  /\ UNCHANGED <<rgvars, stream, tablemap, reactor, conn, segstore, bsr, hist>>

NextReactorSteps ==
  \/ Write
  \/ WriteInternalSteps
  \/ WriteReturn
  \/ ReactorRecv
  \/ ReactorHandle
  \/ ServerAppend
  \/ ServerWrongHost
  \/ ServerFails
  \/ SegmentSeals

SpecReactorSteps == Init /\ [][NextReactorSteps]_vars

\* --- the stream reactor with the application that writes events to the
\* stream and the server that holds the stream's segments.
\* The segments the stream seals at each scaling: 0 splits into 1 and 2,
\* which merge into 3, and sealing 3 seals the stream.
Epochs == <<{0}, {1, 2}, {3}>>

\* The application writes an event with a routing key.
StreamWrite ==
  \E key \in Halves :
    /\ ~channel.closed /\ Len(channel.queue) < CHANNEL_CAPACITY /\ hist.writes < MaxWrites
    /\ oneshot' = oneshot_channel(oneshot)
    /\ channel' = [channel EXCEPT !.queue = Append(@, AppendPendingEvent(PendingEvent(key, <<Len(oneshot) + 1>>, Len(oneshot) + 1)))]
    /\ hist' = [hist EXCEPT !.writes = @ + 1]
    /\ UNCHANGED <<rgvars, stream, tablemap, bsw, reactor, conn, segstore, bsr>>

\* What try_close can answer for each writer of the selector.
TryCloseAll(writers) ==
  {f \in [DOMAIN writers -> UNION {try_close(writers[n]) : n \in DOMAIN writers}] : \A n \in DOMAIN writers : f[n] \in try_close(writers[n])}

\* The completion handles of the events the selector's writers hold.
HeldHandles(selector) ==
  UNION {{e.handle : e \in Range(selector.writers[n].inflight) \cup Range(selector.writers[n].pending)} : n \in DOMAIN selector.writers}

\* StreamReactor::run_once on a command taken from the channel, behind which
\* rest waits. An Err ends the loop, for a server reply after the channel
\* was drained; a panic ends the task. Then the receiver and the selector
\* are dropped with the events they still hold.
StreamReactorHandles(event, rest) ==
  \E closed \in TryCloseAll(stream.selector.writers) :
    LET r == stream_run_once(stream.selector, oneshot, event, stream.stores, closed)
        drained == IF event.type = "ServerReply" /\ r.ret.kind = "Err" THEN drain_recevier(rest, r.o, DOMAIN r.o) ELSE r.o
    IN  IF r.ret.kind = "Ok"
        THEN /\ stream' = [stream EXCEPT !.selector = r.selector, !.taken = None]
             /\ oneshot' = r.o
             /\ channel' = [channel EXCEPT !.queue = rest]
        ELSE /\ stream' = [stream EXCEPT !.running = FALSE, !.panicked = (r.ret.kind = "Panic"), !.taken = None,
                                         !.selector = [@ EXCEPT !.writers = EmptyMap, !.conns = EmptyMap]]
             /\ oneshot' = oneshot_drop(drained, QueuedHandles(rest) \cup HeldHandles(r.selector))
             /\ channel' = [queue |-> <<>>, closed |-> TRUE]

\* StreamReactor::run: one turn of the loop, the next command taken from the
\* channel and handled.
StreamReactorRunOnce ==
  /\ stream.running /\ channel.queue # <<>> /\ stream.taken = None
  /\ StreamReactorHandles(Head(channel.queue), Tail(channel.queue))
  /\ UNCHANGED <<rgvars, tablemap, bsw, reactor, conn, segstore, bsr, hist>>

\* The same turn in its two steps: recv().await takes the next command ...
StreamReactorRecv ==
  /\ stream.running /\ channel.queue # <<>> /\ stream.taken = None
  /\ stream' = [stream EXCEPT !.taken = Some(Head(channel.queue))]
  /\ channel' = [channel EXCEPT !.queue = Tail(@)]
  /\ UNCHANGED <<rgvars, tablemap, bsw, oneshot, reactor, conn, segstore, bsr, hist>>

\* ... and the match handles it, while the channel takes what arrives.
StreamReactorHandle ==
  /\ stream.running /\ stream.taken # None
  /\ StreamReactorHandles(stream.taken[1], channel.queue)
  /\ UNCHANGED <<rgvars, tablemap, bsw, reactor, conn, segstore, bsr, hist>>

\* The server serves the next append on a writer's connection.
StreamServerAppend ==
  \E n \in DOMAIN stream.selector.conns :
    /\ stream.selector.conns[n].state = "up" /\ stream.selector.conns[n].wire # <<>>
    /\ LET r == server_append(stream.stores[n], Head(stream.selector.conns[n].wire))
       IN  /\ stream' = [stream EXCEPT !.stores[n] = r.seg, !.selector.conns[n].wire = Tail(@)]
           /\ Deliver(SegmentReply(n, r.reply.reply, r.reply.event_number))
    /\ UNCHANGED <<rgvars, tablemap, bsw, oneshot, reactor, conn, segstore, bsr, hist>>

\* The server no longer owns the segment (WrongHost, nothing more is served
\* on the connection), or the sealed segment was truncated away
\* (NoSuchSegment).
StreamServerFails ==
  \E n \in DOMAIN stream.selector.conns :
    /\ stream.selector.conns[n].state = "up" /\ stream.selector.conns[n].wire # <<>> /\ hist.faults < MaxFaults
    /\ \/ /\ Deliver(SegmentReply(n, "WrongHost", 0))
          /\ stream' = [stream EXCEPT !.selector.conns[n] = [state |-> "wrong_host", wire |-> <<>>]]
       \/ /\ stream.stores[n].sealed
          /\ Deliver(SegmentReply(n, "NoSuchSegment", 0))
          /\ stream' = [stream EXCEPT !.selector.conns[n].wire = Tail(@)]
    /\ hist' = [hist EXCEPT !.faults = @ + 1]
    /\ UNCHANGED <<rgvars, tablemap, bsw, oneshot, reactor, conn, segstore, bsr>>

\* The stream scales: the segments of the current epoch are sealed and their
\* successors take over.
StreamScales ==
  /\ stream.epoch < Len(Epochs)
  /\ stream' = [stream EXCEPT !.epoch = @ + 1,
                              !.stores = [n \in SegmentNumbers |-> IF n \in Epochs[stream.epoch + 1] THEN [@[n] EXCEPT !.sealed = TRUE] ELSE @[n]]]
  /\ UNCHANGED <<rgvars, tablemap, bsw, channel, oneshot, reactor, conn, segstore, bsr, hist>>

NextStream ==
  \/ StreamWrite
  \/ StreamReactorRunOnce
  \/ StreamServerAppend
  \/ StreamServerFails
  \/ StreamScales

SpecStream == Init /\ [][NextStream]_vars

\* --- the stream reactor seen step by step: a command is taken from the
\* channel and then handled, and what arrives in between waits on the channel.
NextStreamSteps ==
  \/ StreamWrite
  \/ StreamReactorRecv
  \/ StreamReactorHandle
  \/ StreamServerAppend
  \/ StreamServerFails
  \/ StreamScales

SpecStreamSteps == Init /\ [][NextStreamSteps]_vars

\* --- the table map: one caller and the table segment. A request is
\* answered, or fails with a connection error before the server has seen it
\* or after the server has served it.
Fates == {"answered", "unsent", "unanswered"}

SeqsUpTo(S, n) == UNION {[1..m -> S] : m \in 1..n}

Exchange(fate, reply) == IF fate = "answered" THEN Ok(reply) ELSE ConnectionError

Faulted(fate) ==
  IF fate = "answered" THEN UNCHANGED hist
  ELSE hist.faults < MaxFaults /\ hist' = [hist EXCEPT !.faults = @ + 1]

TableInsertAll ==
  \E type \in TableTypes : \E kvps \in SeqsUpTo(TableKeys \X ValuesOf(type), MaxKvps) : \E fate \in Fates :
    LET entries == insert_all_entries(kvps)
        u == table_update(tablemap.seg, entries)
        keys == {entries[i].key : i \in DOMAIN entries}
        served == fate # "unsent"
    IN  /\ tablemap.seg.next + Len(kvps) <= MaxVersion
        /\ Faulted(fate)
        /\ tablemap' = [tablemap EXCEPT !.seg = IF served THEN u.seg ELSE @,
                                        !.op = "insert_all", !.args = kvps, !.type = type, !.existed = FALSE,
                                        !.ret = insert_raw_values(Exchange(fate, u.reply)),
                                        !.written = IF served
                                                    THEN [k \in DOMAIN @ \cup keys |->
                                                           IF k \in keys
                                                           THEN [value |-> kvps[last_entry(entries, k)][2], type |-> type, version |-> u.seg.entries[k].version]
                                                           ELSE @[k]]
                                                    ELSE @]
        /\ UNCHANGED <<rgvars, stream, bsw, channel, oneshot, reactor, conn, segstore, bsr>>

TableGetAll ==
  \E type \in TableTypes : \E keys \in SeqsUpTo(TableKeys, MaxKvps) : \E fate \in Fates \ {"unsent"} :
    /\ Faulted(fate)
    /\ tablemap' = [tablemap EXCEPT !.op = "get_all", !.args = keys, !.type = type, !.existed = FALSE,
                                    !.ret = get_all(get_raw_values(Exchange(fate, table_read(tablemap.seg, get_all_keys(keys)))), type)]
    /\ UNCHANGED <<rgvars, stream, bsw, channel, oneshot, reactor, conn, segstore, bsr>>

\* remove and remove_conditionally: tk is the TableKey of the request.
TableRemoveKey(op, k, tk, fate) ==
  LET r == table_remove(tablemap.seg, tk.key, tk.version)
  IN  /\ Faulted(fate)
      /\ tablemap' = [tablemap EXCEPT !.seg = IF fate # "unsent" THEN r.seg ELSE @,
                                      !.op = op, !.args = <<k>>, !.existed = tk.key \in DOMAIN tablemap.seg.entries,
                                      !.ret = remove_raw_value(Exchange(fate, r.reply))]
      /\ UNCHANGED <<rgvars, stream, bsw, channel, oneshot, reactor, conn, segstore, bsr>>

TableRemove == \E k \in TableKeys : \E fate \in Fates : TableRemoveKey("remove", k, remove_key(k), fate)

\* remove_conditionally with the key's version or with another one.
TableRemoveConditionally ==
  \E k \in TableKeys : \E version \in {key_version(tablemap.seg, serialize(k)), key_version(tablemap.seg, serialize(k)) + 1} : \E fate \in Fates :
    TableRemoveKey("remove_conditionally", k, [key |-> serialize(k), version |-> version], fate)

NextTableMap ==
  \/ TableInsertAll
  \/ TableGetAll
  \/ TableRemove
  \/ TableRemoveConditionally

SpecTableMap == Init /\ [][NextTableMap]_vars

\* --- ReaderGroupState::new: handles are created on a table that starts
\* empty, while the handles that exist run the mutations.
\* The handles that exist: new leaves every handle with a cache that holds
\* at least the table's stream and config.
Created == {h \in Handles : cache[h] # EmptyTable}

\* ReaderGroupState::new by h, which names itself as stream and config. The
\* new synchronizer's cache is empty, or holds the server's table if it was
\* fetched. sync.insert runs the update function on the cache and submits
\* what it staged with the versions the cache has for the keys: all are
\* written, or, when one of the keys is not on the server as it is in the
\* cache, none is, the cache is refreshed and the update function runs again.
NewHandle ==
  \E h \in Handles : \E segments_to_offsets \in SmallMaps({SegmentWithRangeOf(0)}, Offsets) : \E fetched \in BOOLEAN :
    LET view == IF fetched THEN table ELSE EmptyTable
        res == ReaderGroupStateNew(TableNew(view), h, h, segments_to_offsets)
        conflict == \E key \in res.table.insert : Entry(view, key) # Entry(table, key)
        again == ReaderGroupStateNew(TableNew(table), h, h, segments_to_offsets)
        written == IF conflict THEN again.table ELSE res.table
    IN  /\ h \notin Created
        /\ table' = ApplyWrites(table, written)
        /\ cache' = [cache EXCEPT ![h] = written.map]
        /\ stale' = [g \in Handles |-> IF g = h THEN {} ELSE stale[g] \cup written.insert]
        /\ last' = [op |-> "new", reader |-> h, ret |-> Ok(None)]
        /\ UNCHANGED reported
        /\ UNCHANGED bsvars

\* The mutations, run on the server's table by a handle that exists.
HandleAddReader == Created # {} /\ AddReader

HandleAssignSegmentToReader == Created # {} /\ AssignSegmentToReader

HandleUpdateReaderPositions == Created # {} /\ UpdateReaderPositions

\* remove_reader without latest positions of the caller.
HandleRemoveReader ==
  /\ Created # {}
  /\ \E r \in Readers : SyncInsert("remove_reader", r, remove_reader_internal(TableNew(table), r, EmptyMap))
  /\ UNCHANGED reported

InitHandles ==
  /\ table = EmptyTable
  /\ last = [op |-> "", reader |-> "", ret |-> Ok(None)]
  /\ reported = {}
  /\ cache = [h \in Handles |-> EmptyTable]
  /\ stale = [h \in Handles |-> {}]
  /\ bsw = ByteStreamWriterNew
  /\ channel = [queue |-> <<>>, closed |-> FALSE]
  /\ oneshot = <<>>
  /\ reactor = [running |-> TRUE, writer |-> SegmentWriterNew, taken |-> None]
  /\ conn = ConnectionNew
  /\ segstore = SegmentNew
  /\ bsr = ByteStreamReaderNew
  /\ stream = StreamNew
  /\ tablemap = TableMapNew
  /\ hist = [writes |-> 0, wrote |-> 0, faults |-> 0, failed |-> FALSE, sealed |-> FALSE, truncated |-> 0, wrong_hosts |-> 0]

NextHandles ==
  \/ NewHandle
  \/ HandleAddReader
  \/ HandleAssignSegmentToReader
  \/ HandleUpdateReaderPositions
  \/ HandleRemoveReader

SpecHandles == InitHandles /\ [][NextHandles]_vars

\* ------------------------------------------------- views used by the claims

S0 == SegmentWithRangeOf(0)

S1 == SegmentWithRangeOf(1)

S2 == SegmentWithRangeOf(2)

S3 == SegmentWithRangeOf(3)

Online == DOMAIN table[ASSIGNED]

InUnassigned(s) == to_string(s) \in DOMAIN table[UNASSIGNED]

InFuture(s) == to_string(s) \in DOMAIN table[FUTURE]

Owners(s) == {r \in Online : s \in DOMAIN table[ASSIGNED][r]}

Places(s) == Cardinality(Owners(s)) + (IF InUnassigned(s) THEN 1 ELSE 0) + (IF InFuture(s) THEN 1 ELSE 0)

PredecessorSet(s) == Range(Predecessors(s.scoped_segment.segment))

\* Segments the group has learnt of: the initial ones and the successors of
\* every reported segment.
Introduced == (DOMAIN InitialSegments) \cup {s \in AllSegments : PredecessorSet(s) \cap reported # {}}

\* -------------------------------------------------------------------- C1
\* C1: after any sequence of reader-group operations, every segment known to
\* the group and not yet completed is in exactly one of some single reader's
\* assigned map, unassigned, future; a completed or not yet introduced
\* segment is in none (so a promoted successor is never put back in future).
C1_ExactlyOnePlace ==
  /\ KnownSegments(table) \subseteq AllSegments
  /\ \A s \in AllSegments :
       Places(s) = IF s \in Introduced /\ s.scoped_segment.segment \notin reported THEN 1 ELSE 0

\* The merged successor was promoted and is owned by a reader.
C1_Witness == reported = {0, 1, 2} /\ Owners(S3) # {} /\ last.op = "assign_segment_to_reader"

\* -------------------------------------------------------------------- C2
\* C2: with several handles running the mutations as optimistic transactions
\* on their own caches, every change of the server's table is the change one
\* of the mutations makes when run alone on the server's current table, so
\* the committed transactions form a serial order; and in every state each
\* live segment is in exactly one place: no segment has two owners or is lost.
C2_Committed(res, map2) == res.ret.kind = "Ok" /\ res.table.map = map2

C2_SerialStep(map, rep, map2, rep2) ==
  \E r \in Readers :
    \/ rep2 = rep /\ C2_Committed(add_reader_internal(TableNew(map), r), map2)
    \/ rep2 = rep /\ \E positions \in SmallMaps(KnownSegments(map), ConcurrentOffsets) :
                       C2_Committed(update_reader_positions_internal(TableNew(map), r, positions), map2)
    \/ rep2 = rep /\ \E owned \in SmallMaps({s.scoped_segment : s \in KnownSegments(map)}, ConcurrentOffsets) :
                       C2_Committed(remove_reader_internal(TableNew(map), r, owned), map2)
    \/ rep2 = rep /\ \E pick \in {from_str(k) : k \in DOMAIN map[UNASSIGNED]} :
                       C2_Committed(assign_segment_to_reader_internal(TableNew(map), r, pick), map2)
    \/ rep2 = rep /\ \E s \in ScopedSegments : \E offset \in ConcurrentOffsets :
                       C2_Committed(release_segment_internal(TableNew(map), r, s, offset), map2)
    \/ \E c \in AllSegments :
         /\ rep2 = rep \cup {c.scoped_segment.segment}
         /\ C2_Committed(segment_completed_internal(TableNew(map), r, c, SuccessorsOf(c)), map2)

C2_ConcurrentUpdatesAreSerial ==
  /\ []C1_ExactlyOnePlace
  /\ [][(table' # table \/ reported' # reported) => C2_SerialStep(table, reported, table', reported')]_vars

\* Reader r1 owns S0 on the server; r2, whose cache was behind, was refused
\* with a key-version conflict and has refreshed its cache.
C2_Witness ==
  /\ last = Outcome("BadKeyVersion")
  /\ Owners(S0) = {"r1"} /\ "r2" \in Online /\ ~InUnassigned(S0)
  /\ cache["r2"] = table

\* -------------------------------------------------------------------- C3
\* C3: a committed segment_completed(r, completed, successors) removes
\* completed from assigned[r]; every successor not already in future enters
\* with its predecessor set; completed's number leaves every predecessor set;
\* an entry whose set is then empty is in unassigned at (0,0) and not in
\* future; nothing else changes. Completing S0 leaves S1 and S2 unassigned at
\* (0,0), S0 gone and assigned[r] empty.
C3_Completed(r) == CHOOSE c \in DOMAIN table[ASSIGNED][r] : c \notin DOMAIN table'[ASSIGNED][r]

C3_Before(t, c) == IF InFuture(t) THEN table[FUTURE][to_string(t)] ELSE Range(SuccessorsOf(c)[t])

C3_Post(r, c) ==
  /\ DOMAIN table'[ASSIGNED] = DOMAIN table[ASSIGNED]
  /\ table'[DISTANCE] = table[DISTANCE]
  /\ \A q \in Online \ {r} : table'[ASSIGNED][q] = table[ASSIGNED][q]
  /\ DOMAIN table'[ASSIGNED][r] = (DOMAIN table[ASSIGNED][r]) \ {c}
  /\ \A s \in DOMAIN table'[ASSIGNED][r] : table'[ASSIGNED][r][s] = table[ASSIGNED][r][s]
  /\ \A t \in AllSegments :
       LET k == to_string(t)
       IN  IF ~InFuture(t) /\ t \notin DOMAIN SuccessorsOf(c)
           THEN /\ k \notin DOMAIN table'[FUTURE]
                /\ (k \in DOMAIN table'[UNASSIGNED]) = (k \in DOMAIN table[UNASSIGNED])
                /\ k \in DOMAIN table[UNASSIGNED] => table'[UNASSIGNED][k] = table[UNASSIGNED][k]
           ELSE LET remaining == C3_Before(t, c) \ {c.scoped_segment.segment}
                IN  IF remaining = {}
                    THEN /\ k \notin DOMAIN table'[FUTURE]
                         /\ k \in DOMAIN table'[UNASSIGNED]
                         /\ table'[UNASSIGNED][k] = OffsetNew(0, 0)
                    ELSE /\ k \in DOMAIN table'[FUTURE]
                         /\ table'[FUTURE][k] = remaining
                         /\ (k \in DOMAIN table'[UNASSIGNED]) = (k \in DOMAIN table[UNASSIGNED])
                         /\ k \in DOMAIN table[UNASSIGNED] => table'[UNASSIGNED][k] = table[UNASSIGNED][k]
  /\ c = S0 => /\ table'[ASSIGNED][r] = EmptyMap
               /\ table'[UNASSIGNED] = [k \in {to_string(S1), to_string(S2)} |-> OffsetNew(0, 0)]
               /\ Places(S0)' = 0

C3_SegmentCompletedIsOneUpdate ==
  [][(last'.op = "segment_completed" /\ last'.ret.kind = "Ok")
       => /\ last'.reader \in Online
          /\ \E c \in DOMAIN table[ASSIGNED][last'.reader] : c \notin DOMAIN table'[ASSIGNED][last'.reader]
          /\ C3_Post(last'.reader, C3_Completed(last'.reader))]_vars

\* S0 was just completed: both successors are unassigned at (0, 0).
C3_Witness ==
  /\ last.op = "segment_completed" /\ last.ret.kind = "Ok" /\ reported = {0}
  /\ table[UNASSIGNED] = [k \in {to_string(S1), to_string(S2)} |-> OffsetNew(0, 0)]
  /\ table[ASSIGNED][last.reader] = EmptyMap

\* -------------------------------------------------------------------- C4
\* C4: segment_completed of an online reader for a segment that is not in
\* assigned[r] fails with an error result and leaves the table unchanged.
C4_FailsCleanly ==
  [][(last'.op = "segment_completed" /\ last'.reader \in Online /\ last'.ret.kind # "Ok")
       => (last'.ret.kind = "Err" /\ table' = table)]_vars

\* -------------------------------------------------------------------- C5
\* C5: a successor stays in future exactly while one of its predecessors has
\* not been reported, holding the predecessors still to come; it is in
\* unassigned or assigned only once all are reported; and it leaves future
\* only in the segment_completed update that reports its last predecessor,
\* which puts it in unassigned.
C5_FutureState ==
  \A t \in AllSegments :
    /\ InFuture(t) => /\ table[FUTURE][to_string(t)] = PredecessorSet(t) \ reported
                      /\ PredecessorSet(t) \cap reported # {}
                      /\ ~(PredecessorSet(t) \subseteq reported)
    /\ (PredecessorSet(t) # {} /\ (InUnassigned(t) \/ Owners(t) # {})) => PredecessorSet(t) \subseteq reported

C5_PromotionStep ==
  \A t \in AllSegments :
    /\ (InFuture(t) /\ ~InFuture(t)') =>
         /\ last'.op = "segment_completed" /\ last'.ret.kind = "Ok"
         /\ InUnassigned(t)'
         /\ PredecessorSet(t) \subseteq reported'
         /\ ~(PredecessorSet(t) \subseteq reported)
    /\ (PredecessorSet(t) # {} /\ ~(PredecessorSet(t) \subseteq reported) /\ PredecessorSet(t) \subseteq reported')
         => (InUnassigned(t)' /\ ~InFuture(t)')

C5_ReadyWhenAllPredecessorsReported == []C5_FutureState /\ [][C5_PromotionStep]_vars

\* The merged segment waits in future for its second predecessor.
C5_Witness == InFuture(S3) /\ Cardinality(reported \cap PredecessorSet(S3)) = 1 /\ Cardinality(PredecessorSet(S3)) = 2

\* -------------------------------------------------------------------- C6
\* C6: every entry of future_segments has a non-empty predecessor set and is
\* not in unassigned at the same time.
C6_FutureSetsNonEmpty ==
  \A k \in DOMAIN table[FUTURE] : table[FUTURE][k] # {} /\ k \notin DOMAIN table[UNASSIGNED]

\* The update that emptied S3's set has moved it to unassigned at (0, 0).
C6_Witness ==
  /\ last.op = "segment_completed" /\ last.ret.kind = "Ok" /\ reported = {0, 1, 2}
  /\ InUnassigned(S3) /\ table[UNASSIGNED][to_string(S3)] = OffsetNew(0, 0) /\ ~InFuture(S3)

\* -------------------------------------------------------------------- C7
\* C7: add_reader for a reader that has an assigned_segments row returns the
\* "reader already online" error and changes nothing.
C7_AddOnlineReaderFails ==
  [][(last'.op = "add_reader" /\ last'.reader \in Online)
       => (last'.ret = Err("reader already online") /\ table' = table)]_vars

\* A reader owning a segment was added again and kept its segment.
C7_Witness ==
  /\ last.op = "add_reader" /\ last.ret.kind = "Err"
  /\ last.reader \in Online /\ table[ASSIGNED][last.reader] # EmptyMap

\* -------------------------------------------------------------------- C8
\* C8: a reader has a row in assigned_segments iff it has one in
\* distance_to_tail, whose value is u64::MAX.
C8_AssignedIffDistance ==
  /\ DOMAIN table[ASSIGNED] = DOMAIN table[DISTANCE]
  /\ \A r \in DOMAIN table[DISTANCE] : table[DISTANCE][r] = U64_MAX

\* A reader was removed while the other one stays online.
C8_Witness ==
  /\ last.op = "remove_reader" /\ last.ret.kind = "Ok"
  /\ last.reader \notin Online /\ Online # {}

\* -------------------------------------------------------------------- C9
\* C9: remove_reader(r, latest_owned) on an online reader puts every segment
\* of assigned[r] in unassigned, at latest_owned[s.scoped] when supplied and
\* at the stored position otherwise, ignores the other entries of
\* latest_owned, and leaves r without assigned_segments and distance_to_tail
\* rows; nothing else changes.
C9_Post(r, owned, res) ==
  LET after == res.table.map
  IN  /\ res.ret = Ok(None)
      /\ DOMAIN after[ASSIGNED] = Online \ {r}
      /\ DOMAIN after[DISTANCE] = (DOMAIN table[DISTANCE]) \ {r}
      /\ \A q \in Online \ {r} : after[ASSIGNED][q] = table[ASSIGNED][q]
      /\ after[FUTURE] = table[FUTURE]
      /\ DOMAIN after[UNASSIGNED] = (DOMAIN table[UNASSIGNED]) \cup {to_string(s) : s \in DOMAIN table[ASSIGNED][r]}
      /\ \A s \in DOMAIN table[ASSIGNED][r] :
           after[UNASSIGNED][to_string(s)] =
             IF s.scoped_segment \in DOMAIN owned THEN owned[s.scoped_segment] ELSE table[ASSIGNED][r][s]
      /\ \A k \in DOMAIN table[UNASSIGNED] :
           k \notin {to_string(s) : s \in DOMAIN table[ASSIGNED][r]} => after[UNASSIGNED][k] = table[UNASSIGNED][k]

\* Checked on what remove_reader would commit from every reachable table.
C9_RemoveReaderReleasesSegments ==
  \A r \in Online : \A owned \in SmallMaps({s.scoped_segment : s \in KnownSegments(table)}, Offsets) :
    C9_Post(r, owned, remove_reader_internal(TableNew(table), r, owned))

\* A removed reader's segment is unassigned at an offset other than (0, 0)
\* while another segment is unassigned too.
C9_Witness ==
  /\ last.op = "remove_reader" /\ last.ret.kind = "Ok" /\ last.reader \notin Online
  /\ InUnassigned(S1) /\ InUnassigned(S2)
  /\ table[UNASSIGNED][to_string(S1)] # table[UNASSIGNED][to_string(S2)]

\* ------------------------------------------------------------------- C10
\* C10: assign_segment_to_reader(r) on an online reader returns None and
\* changes nothing when unassigned is empty; otherwise exactly one unassigned
\* segment moves to assigned[r] with its offset, r's other assignments and
\* everything else stay, and its scoped form is returned.
C10_Moved(r, s) ==
  /\ s \notin DOMAIN table[ASSIGNED][r]
  /\ table'[ASSIGNED] = [table[ASSIGNED] EXCEPT ![r] = Put(@, s, table[UNASSIGNED][to_string(s)])]
  /\ table'[UNASSIGNED] = Del(table[UNASSIGNED], to_string(s))
  /\ table'[FUTURE] = table[FUTURE]
  /\ table'[DISTANCE] = table[DISTANCE]
  /\ last'.ret = Ok(Some(s.scoped_segment.segment))

C10_AssignMovesOneSegment ==
  [][(last'.op = "assign_segment_to_reader" /\ last'.reader \in Online)
       => IF DOMAIN table[UNASSIGNED] = {}
          THEN last'.ret = Ok(None) /\ table' = table
          ELSE \E s \in AllSegments : InUnassigned(s) /\ C10_Moved(last'.reader, s)]_vars

\* A reader that owned a segment got a second one, at a non-zero offset.
C10_Witness ==
  /\ last.op = "assign_segment_to_reader" /\ last.ret.kind = "Ok" /\ last.ret.val # None
  /\ Cardinality(DOMAIN table[ASSIGNED][last.reader]) = 2
  /\ \E s \in DOMAIN table[ASSIGNED][last.reader] :
       s.scoped_segment.segment = last.ret.val[1] /\ table[ASSIGNED][last.reader][s] # OffsetNew(0, 0)

\* Nothing was unassigned: the call returned None.
C10_WitnessNone ==
  /\ last.op = "assign_segment_to_reader" /\ last.ret = Ok(None) /\ table[UNASSIGNED] = EmptyMap

\* ------------------------------------------------------------------- C11
\* C11: release_segment(r, s, offset) succeeds only when assigned[r] holds
\* exactly one entry whose scoped segment is s and that entry is not in
\* unassigned; on success the entry leaves assigned[r] and is in unassigned
\* with the supplied offset, nothing else changes; otherwise the call returns
\* an error and the table is unchanged.
C11_Entries(r, s) == IF r \in Online THEN {x \in DOMAIN table[ASSIGNED][r] : x.scoped_segment = s} ELSE {}

C11_Releasable(r, s) == Cardinality(C11_Entries(r, s)) = 1 /\ \A x \in C11_Entries(r, s) : ~InUnassigned(x)

C11_Post(r, s, offset, res) ==
  IF C11_Releasable(r, s)
  THEN LET x == CHOOSE y \in C11_Entries(r, s) : TRUE
       IN  /\ res.ret.kind = "Ok"
           /\ res.table.map[ASSIGNED] = [table[ASSIGNED] EXCEPT ![r] = Del(@, x)]
           /\ res.table.map[UNASSIGNED] = Put(table[UNASSIGNED], to_string(x), offset)
           /\ res.table.map[FUTURE] = table[FUTURE]
           /\ res.table.map[DISTANCE] = table[DISTANCE]
  ELSE res.ret.kind = "Err"

\* Checked on what release_segment would commit from every reachable table;
\* a call that returns an error commits nothing.
C11_EveryRelease ==
  \A r \in Readers : \A s \in ScopedSegments : \A offset \in Offsets :
    C11_Post(r, s, offset, release_segment_internal(TableNew(table), r, s, offset))

C11_Refused == (last'.op = "release_segment" /\ last'.ret.kind # "Ok") => table' = table

C11_ReleaseMovesTheSegment == []C11_EveryRelease /\ [][C11_Refused]_vars

\* A reader released S1, which it had at another offset, at (0, 1).
C11_Witness ==
  /\ last.op = "release_segment" /\ last.ret.kind = "Ok" /\ last.reader \in Online
  /\ InUnassigned(S1) /\ table[UNASSIGNED][to_string(S1)] = OffsetNew(0, 1)
  /\ S2 \in DOMAIN table[ASSIGNED][last.reader]

\* A release of a segment the reader does not own was refused.
C11_WitnessRefused ==
  /\ last.op = "release_segment" /\ last.ret.kind = "Err" /\ last.reader \in Online
  /\ table[ASSIGNED][last.reader] # EmptyMap

\* ------------------------------------------------------------------- C12
\* C12: update_reader_positions(r, positions) on an online reader overwrites
\* read and processed of exactly the segments of positions that are in
\* assigned[r]; the other segments of positions are ignored, so assigned[r]
\* holds the same segments before and after, and nothing else changes.
C12_Post(r, positions, res) ==
  LET after == res.table.map
  IN  /\ res.ret.kind = "Ok"
      /\ DOMAIN after[ASSIGNED] = DOMAIN table[ASSIGNED]
      /\ DOMAIN after[ASSIGNED][r] = DOMAIN table[ASSIGNED][r]
      /\ \A s \in DOMAIN table[ASSIGNED][r] :
           after[ASSIGNED][r][s] = IF s \in DOMAIN positions THEN positions[s] ELSE table[ASSIGNED][r][s]
      /\ \A q \in Online \ {r} : after[ASSIGNED][q] = table[ASSIGNED][q]
      /\ after[UNASSIGNED] = table[UNASSIGNED]
      /\ after[FUTURE] = table[FUTURE]
      /\ after[DISTANCE] = table[DISTANCE]

\* Checked on what update_reader_positions would commit from every reachable
\* table.
C12_UpdateOverwritesOwnedOnly ==
  \A r \in Online : \A positions \in SmallMaps(KnownSegments(table), Offsets) :
    C12_Post(r, positions, update_reader_positions_internal(TableNew(table), r, positions))

\* The reader's position in S1 was overwritten while S2, which it does not
\* own, is unassigned.
C12_Witness ==
  /\ last.op = "update_reader_positions" /\ last.ret.kind = "Ok" /\ last.reader \in Online
  /\ DOMAIN table[ASSIGNED][last.reader] = {S1}
  /\ table[ASSIGNED][last.reader][S1] = OffsetNew(0, 1)
  /\ InUnassigned(S2)

\* ------------------------------------------------------------------- C13
\* C13: from any table in which r is not online, add_reader(r);
\* remove_reader(r, {}); add_reader(r) succeeds at every step and ends with r
\* online with an empty assigned map.
C13_Commit(map, res) == IF res.ret.kind = "Ok" THEN res.table.map ELSE map

C13_RoundTrip(map, r) ==
  LET a1 == add_reader_internal(TableNew(map), r)
      m1 == C13_Commit(map, a1)
      a2 == remove_reader_internal(TableNew(m1), r, EmptyMap)
      m2 == C13_Commit(m1, a2)
      a3 == add_reader_internal(TableNew(m2), r)
      m3 == C13_Commit(m2, a3)
  IN  /\ a1.ret.kind = "Ok" /\ a2.ret.kind = "Ok" /\ a3.ret.kind = "Ok"
      /\ r \in DOMAIN m3[ASSIGNED] /\ m3[ASSIGNED][r] = EmptyMap
      /\ r \in DOMAIN m3[DISTANCE]

C13_AddRemoveAdd == \A r \in Readers \ Online : C13_RoundTrip(table, r)

\* A reader was just added with an empty map while the other reader, online
\* too, owns a segment.
C13_Witness ==
  /\ last.op = "add_reader" /\ last.ret.kind = "Ok"
  /\ table[ASSIGNED][last.reader] = EmptyMap
  /\ \E q \in Online \ {last.reader} : table[ASSIGNED][q] # EmptyMap
  /\ Readers \ Online = {}

\* ------------------------------------------------------------------- C14
\* C14: every Offset stored in a reader's assigned map or in unassigned has
\* processed <= read.
C14_ProcessedAtMostRead ==
  /\ \A r \in Online : \A s \in DOMAIN table[ASSIGNED][r] : table[ASSIGNED][r][s].processed <= table[ASSIGNED][r][s].read
  /\ \A k \in DOMAIN table[UNASSIGNED] : table[UNASSIGNED][k].processed <= table[UNASSIGNED][k].read

\* ------------------------------------------------------------------ C15
\* The bytes of the segment are the bytes handed to write, in the order
\* they were handed over, unchanged, none twice and none missing in between.
C15_InOrder == \A i \in DOMAIN segstore.data : segstore.data[i] = i

\* A read that returned Ok(k) copied the k bytes that precede the reader's
\* new offset, k being at most the length of the buffer it was given.
C15_ReadBack ==
  (bsr.op = "read" /\ bsr.ret.kind = "Ok") =>
    /\ bsr.ret.val = Len(bsr.buf) /\ Len(bsr.buf) \in 1..bsr.len
    /\ \A i \in DOMAIN bsr.buf : bsr.buf[i] = segstore.data[bsr.offset - Len(bsr.buf) + i]

\* C15: after write calls that all returned Ok and a flush that returned Ok
\* the segment holds b1 || ... || bn, every byte in write order and chunk
\* order, also when the writer reconnected in between; a reader that seeks
\* to Start(0) reads back a prefix of it, at most |buf| bytes per read.
C15_FlushedInWriteOrder ==
  /\ C15_InOrder
  /\ C15_ReadBack
  /\ (bsw.pc = "idle" /\ bsw.op = "flush" /\ bsw.ret.kind = "Ok" /\ ~hist.failed) =>
       Len(segstore.data) = hist.wrote

\* Two writes of two chunks each and a reconnection were flushed, and a read
\* from the start returned the first two bytes.
C15_Witness ==
  /\ bsw.pc = "idle" /\ bsw.op = "flush" /\ bsw.ret.kind = "Ok" /\ ~hist.failed
  /\ hist.writes = 2 /\ hist.wrote = 4 /\ hist.faults = 1
  /\ segstore.data = <<1, 2, 3, 4>>
  /\ bsr.op = "read" /\ bsr.ret = IoOk(2) /\ bsr.buf = <<1, 2>> /\ bsr.offset = 2

\* ------------------------------------------------------------------ C16
RECURSIVE C16_Concat(_)
C16_Concat(chunks) == IF chunks = <<>> THEN <<>> ELSE Head(chunks) \o C16_Concat(Tail(chunks))

\* The chunks waiting in the reactor's channel, in queue order.
C16_Queued == SelectSeq(channel.queue, LAMBDA e : e.type = "AppendEvent")

\* While write runs the chunks it has enqueued are non-overlapping pieces of
\* at most MAX_WRITE_SIZE bytes that make up buf[..position], and the channel
\* holds its chunks in that order.
C16_Chunked ==
  /\ bsw.pc \in {"write", "try_recv"} =>
       /\ \A i \in DOMAIN bsw.chunks : Len(bsw.chunks[i]) <= MAX_WRITE_SIZE
       /\ ~channel.closed => C16_Concat(bsw.chunks) = SubSeq(bsw.buf, 1, bsw.position)
  /\ \A i, j \in DOMAIN C16_Queued :
       i < j => /\ C16_Queued[i].handle < C16_Queued[j].handle
                /\ \A a \in Range(C16_Queued[i].data), b \in Range(C16_Queued[j].data) : a < b

\* write returns as soon as its last chunk is handed over, whatever the
\* state of that chunk's completion: with buf.len() when every chunk was
\* enqueued, with an error only when the reactor has terminated.
C16_Return ==
  (bsw.pc = "try_recv" /\ bsw'.pc = "idle") =>
    /\ bsw'.op = "write"
    /\ bsw'.ret.kind = "Ok" =>
         /\ bsw'.ret.val = Len(bsw.buf)
         /\ C16_Concat(bsw.chunks) = bsw.buf
         /\ Len(bsw.chunks) >= 1
    /\ bsw'.ret.kind # "Ok" => channel.closed
    /\ (~channel.closed /\ oneshot[bsw.receiver] = "Empty") => bsw'.ret = IoOk(Len(bsw.buf))

\* C16: write(buf) enqueues buf as consecutive chunks of at most
\* MAX_WRITE_SIZE bytes whose concatenation in enqueue order is buf, and
\* returns buf.len() once the last chunk is enqueued, without waiting for an
\* acknowledgment.
C16_WriteChunksAndReturns ==
  /\ [](C16_Chunked /\ (bsw.pc = "try_recv" => ENABLED WriteReturn))
  /\ [][C16_Return]_vars

\* A write of two chunks has returned 2 while neither chunk has reached the
\* segment or been acknowledged.
C16_Witness ==
  /\ bsw.pc = "idle" /\ bsw.op = "write" /\ bsw.ret = IoOk(2)
  /\ bsw.chunks = <<<<1>>, <<2>>>> /\ bsw.buf = <<1, 2>>
  /\ bsw.event_handle # None /\ oneshot[bsw.event_handle[1]] = "Empty"
  /\ segstore.data = <<>>

\* ------------------------------------------------------------------ C17
\* The chunks that were enqueued: every completion channel but the ones
\* write_internal made for a send that failed.
C17_Enqueued == {h \in DOMAIN oneshot : oneshot[h] # "SendToProcessor"}

\* C17: whenever flush has returned Ok, every chunk enqueued by every
\* earlier write has been acknowledged by the server, also when an earlier
\* flush or write returned an error.
C17_FlushOkMeansAcknowledged ==
  (bsw.pc = "idle" /\ bsw.op = "flush" /\ bsw.ret.kind = "Ok") =>
    \A h \in C17_Enqueued : oneshot[h] = "Ok"

\* ------------------------------------------------------------------ C18
\* seal issues SealSegment only after its flush: when the segment becomes
\* sealed every enqueued chunk has been acknowledged.
C18_SealFlushesFirst ==
  (segstore'.sealed /\ ~segstore.sealed) =>
    /\ bsw'.op = "seal" /\ bsw'.ret.kind = "Ok"
    /\ \A h \in C17_Enqueued : oneshot[h] = "Ok"

\* A write that returns after seal has returned Ok returns an error.
C18_WriteFails == (hist.sealed /\ bsw.pc = "try_recv" /\ bsw'.pc = "idle") => bsw'.ret.kind = "Err"

\* C18: seal first flushes the writer and then issues SealSegment; after
\* seal has returned successfully every subsequent write on the writer fails.
C18_SealedWriterRejectsWrites == [][C18_SealFlushesFirst /\ C18_WriteFails]_vars

\* ------------------------------------------------------------------ C19
\* The offset pos asks for, as a number, given the reader's offset and tail.
C19_Target(offset, pos, tail) ==
  CASE pos.kind = "Start" -> pos.arg
    [] pos.kind = "Current" -> offset + pos.arg
    [] pos.kind = "End" -> tail + pos.arg

C19_MustFail(offset, pos, tail) ==
  CASE pos.kind = "Start" -> pos.arg > tail
    [] pos.kind = "Current" -> offset + pos.arg < 0 \/ offset + pos.arg > tail
    [] pos.kind = "End" -> pos.arg > 0 \/ tail + pos.arg < 0

\* A seek whose tail was fetched: it resolved against the length of the
\* segment at that call, failed exactly in the cases listed, and on success
\* returned the target and left the reader's offset equal to it.
C19_Resolved ==
  (bsr' # bsr /\ bsr'.op = "seek" /\ bsr'.ret.msg # "fetch_current_segment_length") =>
    /\ bsr'.tail = Len(segstore.data)
    /\ IF C19_MustFail(bsr.offset, bsr'.pos, bsr'.tail)
       THEN bsr'.ret.kind = "Err"
       ELSE /\ bsr'.ret = IoOk(C19_Target(bsr.offset, bsr'.pos, bsr'.tail))
            /\ bsr'.offset = bsr'.ret.val

\* C19: seek resolves its target against the tail fetched for that call:
\* Start(o) yields o and fails if o > tail; Current(d) yields offset + d and
\* fails if that is < 0 or > tail; End(d) yields tail + d and fails if d > 0
\* or tail + d < 0; on success the reader's offset is the returned value.
C19_SeekResolvesAgainstTail == [][C19_Resolved]_vars

\* ------------------------------------------------------------------ C20
\* C20: an invalid seek, such as End(d) with d > 0, is rejected without
\* contacting the server: no request was issued before the error returned.
C20_InvalidSeekIsLocal ==
  (bsr.op = "seek" /\ bsr.ret.kind = "Err" /\ bsr.ret.msg # "fetch_current_segment_length") => ~bsr.contacted

\* ------------------------------------------------------------------ C21
\* What a read with a buffer of len bytes can do for a reader at offset:
\* every result, bytes delivered and offset afterwards.
C21_Reads(offset, len) == {read(offset, len, result) : result \in segment_read(segstore, offset, len)}

\* The readers that resolve v with seek(Start(v)) on a new reader.
C21_ByStart(v) == seek(ByteStreamReaderNew.offset, SeekFromStart(v), Len(segstore.data))

\* C21: a successful seek is an offset update and nothing else. A reader
\* whose seek (Start, Current or End) returned v reads, for every buffer
\* length, exactly as the reader that a seek(Start(v)) on a new reader
\* gives, so that two readers that resolved the same offset by different
\* seeks read alike; and the seek issued no read request on the data path.
C21_SeekIsAnOffsetUpdate ==
  (bsr.op = "seek" /\ bsr.ret.kind = "Ok") =>
    /\ ~bsr.data_path
    /\ \A r \in C21_ByStart(bsr.ret.val) :
         /\ r.ret = bsr.ret
         /\ \A len \in 1..MaxBuf : C21_Reads(bsr.offset, len) = C21_Reads(r.offset, len)

\* A seek(End(-2)) on a segment of three bytes resolved offset 1, from
\* where a read can deliver bytes.
C21_Witness ==
  /\ bsr.op = "seek" /\ bsr.pos = SeekFromEnd(-2) /\ bsr.ret = IoOk(1) /\ bsr.offset = 1
  /\ Len(segstore.data) = 3
  /\ \E r \in C21_Reads(bsr.offset, 2) : r.ret = IoOk(2) /\ r.buf = <<2, 3>>

\* A seek(Current(1)) from offset 1 resolved offset 2.
C21_WitnessCurrent ==
  /\ bsr.op = "seek" /\ bsr.pos = SeekFromCurrent(1) /\ bsr.ret = IoOk(2) /\ bsr.offset = 2

\* ------------------------------------------------------------------ C22
\* What read owes its caller for a buffer of len bytes at offset, given the
\* server's reply: r is what the call returned, delivered and left as offset.
C22_Post(offset, len, result, r) ==
  IF result.kind = "Ok" /\ ~result.end_of_segment
  THEN LET n == min(Len(result.data), len)
       IN  /\ r.ret = IoOk(n) /\ Len(r.buf) = n /\ r.offset = offset + n
           /\ \A i \in 1..n : r.buf[i] = result.data[i] /\ r.buf[i] = segstore.data[offset + i]
  ELSE r.ret.kind = "Err" /\ r.buf = <<>> /\ r.offset = offset

\* The last call, when it was a read, left what it returned in keeping
\* with the number of bytes received.
C22_LastRead ==
  bsr.op = "read" =>
    IF bsr.ret.kind = "Ok"
    THEN bsr.ret.val = min(bsr.received, bsr.len) /\ Len(bsr.buf) = bsr.ret.val
    ELSE bsr.buf = <<>>

\* C22: read(buf) delivers exactly min(returned, buf.len()) bytes of what
\* the server returned for the current offset and advances the offset by
\* that count; when the reply carries end_of_segment or the read request
\* fails it returns an error and the offset stays. Stated for every reply
\* the server can give to a read at the reader's offset, at every state.
C22_ReadDeliversMin ==
  /\ C22_LastRead
  /\ \A len \in 1..MaxBuf : \A result \in segment_read(segstore, bsr.offset, len) :
       C22_Post(bsr.offset, len, result, read(bsr.offset, len, result))

\* A read with a buffer of one byte received two bytes and delivered one.
C22_Witness ==
  /\ bsr.op = "read" /\ bsr.len = 1 /\ bsr.received = 2 /\ bsr.ret = IoOk(1)
  /\ bsr.buf = <<1>> /\ bsr.offset = 1

\* A read with a buffer of two bytes received one byte although two were
\* there.
C22_WitnessShort ==
  /\ bsr.op = "read" /\ bsr.len = 2 /\ bsr.received = 1 /\ bsr.ret = IoOk(1)
  /\ bsr.offset = 1 /\ Len(segstore.data) >= 2

\* A read below the head failed, and one whose reply carried
\* end_of_segment: the offset is where the seek left it.
C22_WitnessFailed ==
  /\ bsr.op = "read" /\ bsr.ret = IoErr("read error") /\ bsr.offset = 1 /\ segstore.head = 2

C22_WitnessSealed ==
  /\ bsr.op = "read" /\ bsr.ret = IoErr("segment is sealed") /\ bsr.offset = 1 /\ bsr.received = 2

\* ------------------------------------------------------------------ C23
\* hist.truncated is the largest t of the truncate_data_before(t) calls that
\* succeeded. A seek(Start(o)) below it succeeds and no read from there
\* does.
C23_BelowTheTruncation ==
  \A o \in 0..(hist.truncated - 1) :
    /\ \A r \in seek(bsr.offset, SeekFromStart(o), Len(segstore.data)) : r.ret = IoOk(o) /\ r.offset = o
    /\ \A len \in 1..MaxBuf : \A result \in segment_read(segstore, o, len) : read(o, len, result).ret.kind = "Err"

\* What current_head() returns is at least t.
C23_HeadAtLeast == current_head(segstore).val >= hist.truncated

\* When data remains, seek(Start(current_head())) succeeds and every read
\* from there delivers bytes.
C23_ReadableAtHead ==
  LET head == current_head(segstore).val
  IN  (hist.truncated > 0 /\ head < Len(segstore.data)) =>
        \A r \in seek(bsr.offset, SeekFromStart(head), Len(segstore.data)) :
          /\ r.ret = IoOk(head)
          /\ \A len \in 1..MaxBuf : \A result \in segment_read(segstore, r.offset, len) :
               read(r.offset, len, result).ret.kind = "Ok"

\* What current_head() returns never decreases, and a call that returns
\* hands back a value that is at least t and at least what the call before
\* it returned.
C23_HeadNeverDecreases ==
  /\ current_head(segstore').val >= current_head(segstore).val
  /\ (bsr' # bsr /\ bsr'.op = "current_head" /\ bsr'.ret.kind = "Ok") =>
       /\ bsr'.ret.val >= hist.truncated
       /\ (bsr.op = "current_head" /\ bsr.ret.kind = "Ok") => bsr'.ret.val >= bsr.ret.val

\* C23: after truncate_data_before(t) succeeded, for every o < t a
\* seek(Start(o)) succeeds and the read that follows fails; current_head()
\* returns a value >= t that never decreases from call to call; and a read
\* after seek(Start(current_head())) succeeds when data remains.
C23_TruncationMovesTheHead ==
  /\ [](C23_BelowTheTruncation /\ C23_HeadAtLeast /\ C23_ReadableAtHead)
  /\ [][C23_HeadNeverDecreases]_vars

\* ------------------------------------------------------------------ C24
\* A read of len bytes at the reader's offset whose range lies within the
\* readable part of the sealed segment succeeds with bytes of that range.
C24_WithinSucceeds(len) ==
  (segstore.head <= bsr.offset /\ bsr.offset + len <= Len(segstore.data)) =>
    \A result \in segment_read(segstore, bsr.offset, len) :
      LET r == read(bsr.offset, len, result)
      IN  /\ r.ret.kind = "Ok" /\ r.ret.val \in 1..len
          /\ \A i \in DOMAIN r.buf : r.buf[i] = segstore.data[bsr.offset + i]

\* A read whose range reaches the tail fails with "segment is sealed" and
\* leaves the offset.
C24_ReachingTailFails(len) ==
  (segstore.head <= bsr.offset /\ bsr.offset <= Len(segstore.data) /\ bsr.offset + len > Len(segstore.data)) =>
    \A result \in segment_read(segstore, bsr.offset, len) :
      LET r == read(bsr.offset, len, result)
      IN  r.ret = IoErr("segment is sealed") /\ r.offset = bsr.offset

\* C24: after seal() a read whose byte range lies entirely within
\* [0, tail) succeeds and returns those bytes, and a read whose range reaches
\* the tail fails with "segment is sealed" without advancing the offset.
C24_SealedSegmentReads ==
  segstore.sealed => \A len \in 1..MaxBuf : C24_WithinSucceeds(len) /\ C24_ReachingTailFails(len)

\* ------------------------------------------------------------------ C25
\* The completion handles of the appends the reactor has accepted or that
\* wait on its channel and are not acknowledged yet.
C25_Unacknowledged ==
  {h \in QueuedHandles(channel.queue) \cup {e.handle : e \in Range(reactor.writer.inflight) \cup Range(reactor.writer.pending)} :
     oneshot[h] = "Empty"}

\* The step in which the reactor terminates signals ReactorClosed on each
\* of them.
C25_Termination ==
  (reactor.running /\ ~reactor'.running) => \A h \in C25_Unacknowledged : oneshot'[h] = "ReactorClosed"

\* No sender of a completion handle was dropped without sending a result.
C25_NoneDropped == \A h \in DOMAIN oneshot : oneshot[h] # "Closed"

\* C25: every append accepted by the reactor or queued on its channel has
\* its completion handle resolved: whenever the reactor terminates, for
\* whichever reason, each event not yet acknowledged, in the channel,
\* pending or inflight, is signaled with ReactorClosed, and no handle is
\* dropped without a result.
C25_EveryHandleResolved == []C25_NoneDropped /\ [][C25_Termination]_vars

\* ------------------------------------------------------------------ C27
\* The step is the reactor's: it takes the first entry off its channel.
C27_ReactorTakes ==
  /\ reactor.running /\ channel.queue # <<>> /\ channel' # channel
  /\ channel'.closed \/ channel'.queue = Tail(channel.queue)

\* The segment writer holds no event that waits for its acknowledgment.
C27_Drained(w) == w.inflight = <<>> /\ w.pending = <<>>

\* The reactor takes CloseReactor off its channel: it ends only when the
\* writer has drained; otherwise the writer is marked as closing with its
\* events kept and the reactor runs on.
C27_OnCloseReactor ==
  (C27_ReactorTakes /\ Head(channel.queue).type = "CloseReactor") =>
    /\ ~reactor'.running => C27_Drained(reactor.writer)
    /\ ~C27_Drained(reactor.writer) =>
         /\ reactor'.running /\ reactor'.writer.closing
         /\ reactor'.writer.inflight = reactor.writer.inflight /\ reactor'.writer.pending = reactor.writer.pending

\* A closing writer with events left goes on with the server's replies: a
\* reply ends the reactor only when it is an error reply, and the reactor
\* ends on CloseSegmentWriter only with a drained writer.
C27_WhileClosing ==
  (reactor.running /\ reactor.writer.closing /\ ~reactor'.running) =>
    \/ Head(channel.queue).type = "CloseSegmentWriter" /\ C27_Drained(reactor.writer)
    \/ Head(channel.queue).type = "ServerReply" /\ Head(channel.queue).reply \notin {"DataAppended", "WrongHost"}

\* Once the closing writer has drained its connection is handed back, and
\* the CloseSegmentWriter that ends the reactor is on the channel.
C27_ThenCloses ==
  (reactor.running /\ reactor.writer.closing /\ C27_Drained(reactor.writer)) =>
    IF conn.state = "closed"
    THEN \E i \in DOMAIN channel.queue : channel.queue[i] = CloseSegmentWriter(TRUE)
    ELSE Len(channel.queue) < CHANNEL_CAPACITY => ENABLED WriterCloses

\* C27: on CloseReactor the reactor calls try_close on its writer and
\* terminates only if the writer has no inflight and no pending events; with
\* unacknowledged events it keeps running and processes the server's
\* replies until they are acknowledged, after which it terminates.
C27_CloseWaitsForAcknowledgments ==
  []C27_ThenCloses /\ [][C27_OnCloseReactor /\ C27_WhileClosing]_vars

\* CloseReactor was processed with an event inflight and the reactor runs.
C27_Witness ==
  /\ bsw.pc = "dropped" /\ reactor.running /\ reactor.writer.closing
  /\ Len(reactor.writer.inflight) = 1 /\ channel.queue = <<>>

\* The writer was dropped after two writes, the events were acknowledged
\* and the reactor has ended.
C27_WitnessEnded ==
  /\ bsw.pc = "dropped" /\ ~reactor.running /\ hist.writes = 2
  /\ Len(oneshot) >= 2 /\ \A h \in DOMAIN oneshot : oneshot[h] = "Ok"

\* ------------------------------------------------------------------ C28
\* The step in which the reactor takes the first entry off its channel.
C28_ReactorTakes ==
  /\ reactor.running /\ channel.queue # <<>> /\ channel' # channel
  /\ channel'.closed \/ channel'.queue = Tail(channel.queue)

\* The events the segment writer holds, inflight before pending.
C28_Held(w) == w.inflight \o w.pending

\* The reactor takes a WrongHost reply off its channel: it runs on, the
\* writer has reconnected once more, every event it held is inflight again
\* or was acknowledged by the new connection's setup, and no completion
\* handle has received an error.
C28_OnWrongHost ==
  (C28_ReactorTakes /\ Head(channel.queue) = ServerReply("WrongHost", 0)) =>
    /\ reactor'.running /\ ~channel'.closed
    /\ reactor'.writer.reconnects = reactor.writer.reconnects + 1
    /\ reactor'.writer.pending = <<>>
    /\ reactor'.writer.inflight = SelectSeq(C28_Held(reactor.writer), LAMBDA e : oneshot'[e.handle] = "Empty")
    /\ conn'.state = "up" /\ conn'.wire = Requests(reactor'.writer.inflight)
    /\ \A h \in DOMAIN oneshot : oneshot'[h] \in {oneshot[h], "Ok"}

\* One event was appended, the server answered WrongHost once and nothing
\* else went wrong, and the event's completion handle holds success.
C28_Scenario ==
  /\ reactor.running /\ reactor.writer.event_num_counter = 1
  /\ hist.wrong_hosts = 1 /\ hist.faults = 1
  /\ oneshot # <<>> /\ oneshot[1] = "Ok"

\* C28: a WrongHost reply is handled by reconnecting the writer and never
\* terminates the reactor or fails a completion handle; with a server that
\* answers WrongHost once and then DataAppended a single appended event is
\* acknowledged after exactly one reconnect, and the writer ends with 0
\* pending and 0 inflight events.
C28_WrongHostReconnects ==
  /\ [](C28_Scenario => reactor.writer.reconnects = 1 /\ C28_Held(reactor.writer) = <<>> /\ segstore.last_event_number = 1)
  /\ [][C28_OnWrongHost]_vars

C28_Witness == C28_Scenario /\ hist.wrote = 1 /\ segstore.data = <<1>> /\ bsw.op = "flush" /\ bsw.ret = IoOk(Unit)

\* As in test_segment_reactor_wrong_host: the WrongHost reply was processed
\* and the event is inflight again.
C28_WitnessReconnected ==
  /\ reactor.running /\ reactor.writer.reconnects = 1 /\ hist.wrong_hosts = 1
  /\ Len(reactor.writer.inflight) = 1 /\ reactor.writer.pending = <<>> /\ oneshot = <<"Empty">>

\* ------------------------------------------------------------------ C30
\* The step in which the reactor takes a DataAppended off its channel.
C30_DataAppended ==
  /\ reactor.running /\ channel.queue # <<>> /\ Head(channel.queue).type = "ServerReply"
  /\ Head(channel.queue).reply = "DataAppended"
  /\ channel' # channel /\ channel'.queue = Tail(channel.queue)

\* Every inflight event up to n is removed with success on its completion
\* handle, the others stay inflight in their order with their handles
\* untouched (unless the connection is down and the writer reconnects), and
\* a writer whose only outstanding event was acknowledged is left with
\* nothing inflight and nothing pending.
C30_OnDataAppended ==
    C30_DataAppended =>
      LET w == reactor.writer
          n == Head(channel.queue).event_number
          acked == {e \in Range(w.inflight) : e.event_number <= n}
          kept == SelectSeq(w.inflight, LAMBDA e : e.event_number > n)
      IN  /\ reactor'.running
          /\ \A e \in acked : oneshot'[e.handle] = "Ok" /\ e \notin Range(reactor'.writer.inflight)
          /\ \A h \in DOMAIN oneshot : oneshot'[h] \in {oneshot[h], "Ok"}
          /\ (conn.state # "down") =>
               /\ \A h \in DOMAIN oneshot : oneshot'[h] # oneshot[h] => \E e \in acked : e.handle = h
               /\ reactor'.writer.inflight = kept \o w.pending /\ reactor'.writer.pending = <<>>
          /\ (Len(w.inflight) = 1 /\ w.pending = <<>> /\ acked # {}) =>
               (reactor'.writer.inflight = <<>> /\ reactor'.writer.pending = <<>>)

\* Success is signaled in the order of the appends: when a handle holds
\* success, so does every handle enqueued before it.
C30_InOrder == \A h1, h2 \in DOMAIN oneshot : (h1 < h2 /\ oneshot[h2] = "Ok") => oneshot[h1] = "Ok"

\* C30: on DataAppended{event_number} the writer removes every inflight
\* event with number <= event_number and signals success on their
\* completion handles; the handles are therefore signaled in the order the
\* appends were enqueued, and after the only outstanding append is
\* acknowledged the writer has 0 pending and 0 inflight events.
C30_AcknowledgedInOrder == []C30_InOrder /\ [][C30_OnDataAppended]_vars

\* Two appends were acknowledged, nothing is outstanding.
C30_Witness ==
  /\ reactor.running /\ reactor.writer.event_num_counter = 2 /\ oneshot = <<"Ok", "Ok">>
  /\ reactor.writer.inflight = <<>> /\ reactor.writer.pending = <<>> /\ segstore.last_event_number = 2

\* One DataAppended is about to acknowledge two inflight events.
C30_WitnessTwoAtOnce ==
  /\ reactor.running /\ Len(reactor.writer.inflight) = 2 /\ channel.queue # <<>>
  /\ Head(channel.queue) = ServerReply("DataAppended", 2)

\* ------------------------------------------------------------------ C26
\* The channel holds at most CHANNEL_CAPACITY entries.
C26_Bounded == Len(channel.queue) <= CHANNEL_CAPACITY

\* write is in its loop with a chunk to send and the channel is full.
C26_Blocked == bsw.pc = "write" /\ ~channel.closed /\ Len(channel.queue) = CHANNEL_CAPACITY

\* A write in its loop can send its chunk exactly when the channel is not
\* full (or closed, in which case the send fails at once): it waits while
\* the channel is full and can go on as soon as an entry was taken off.
C26_WaitsWhileFull == bsw.pc = "write" => (ENABLED WriteInternal <=> ~C26_Blocked)

\* C26: the reactor's command channel never holds more than its capacity;
\* when it is full a byte-stream write blocks, it resumes as soon as the
\* reactor has taken an entry off the channel, and a blocked write
\* eventually completes.
C26_BlockedWriteCompletes ==
  /\ [](C26_Bounded /\ C26_WaitsWhileFull)
  /\ (C26_Blocked ~> bsw.pc = "idle")

\* A write waits with its second chunk for room on the channel, which holds
\* its first chunk.
C26_Witness ==
  /\ C26_Blocked /\ bsw.position = 1 /\ Len(bsw.buf) = 2
  /\ \E i \in DOMAIN channel.queue : channel.queue[i].type = "AppendEvent"

\* A write waits for room on a channel filled by the server's replies.
C26_WitnessReplies ==
  /\ C26_Blocked /\ \A i \in DOMAIN channel.queue : channel.queue[i].type = "ServerReply"

\* ---------------------------------------------------------------- C29

\* The stream reactor takes a SegmentIsSealed or NoSuchSegment reply for a
\* segment that has a writer in the selector.
C29_ReactorTakes ==
  /\ stream.running /\ channel.queue # <<>>
  /\ Head(channel.queue).type = "ServerReply"
  /\ Head(channel.queue).reply \in {"SegmentIsSealed", "NoSuchSegment"}
  /\ Head(channel.queue).segment \in DOMAIN stream.selector.writers
  /\ (channel'.closed \/ channel'.queue = Tail(channel.queue))

\* The events a writer holds that are not yet acknowledged.
C29_Held(w) == Range(w.inflight) \cup Range(w.pending)

C29_OnSealed ==
  C29_ReactorTakes =>
    LET s == Head(channel.queue).segment
        successors == get_successors(s)
    IN  /\ ~stream'.running <=> successors = {}
        /\ successors # {} =>
             /\ successors \subseteq DOMAIN stream'.selector.writers
             /\ s \notin DOMAIN stream'.selector.writers
             /\ \A e \in C29_Held(stream.selector.writers[s]) :
                  \E t \in successors : \E x \in C29_Held(stream'.selector.writers[t]) :
                    x.handle = e.handle /\ x.data = e.data /\ x.routing_key = e.routing_key
             /\ \A h \in DOMAIN oneshot : oneshot'[h] = oneshot[h]

\* C29: in the stream reactor a SegmentIsSealed or NoSuchSegment reply for a
\* segment s that has a writer ends the reactor if and only if s has no
\* successors; otherwise the successors have writers afterwards, every event
\* s's writer held unacknowledged, inflight or pending, is held by a
\* successor's writer, s's writer is gone from the selector and the reactor
\* runs on.
C29_SealedSegmentIsSucceeded == [][C29_OnSealed]_vars

\* The only event written was in the writer of segment 0 when its sealed
\* reply was taken: it is now inflight in a successor's writer.
C29_Witness ==
  /\ stream.running /\ hist.writes = 1 /\ 0 \notin DOMAIN stream.selector.writers
  /\ \E t \in get_successors(0) : \E x \in Range(stream.selector.writers[t].inflight) : x.handle = 1

\* The same after the merge: the event has reached the writer of segment 3.
C29_WitnessMerged ==
  /\ stream.running /\ hist.writes = 1 /\ 3 \in DOMAIN stream.selector.writers
  /\ \E x \in Range(stream.selector.writers[3].inflight) : x.handle = 1

\* The reply for the last segment, which has no successors, ended the reactor.
C29_WitnessStreamSealed ==
  /\ ~stream.running /\ ~stream.panicked /\ stream.stores[3].sealed
  /\ oneshot # <<>> /\ \A h \in DOMAIN oneshot : oneshot[h] = "Closed"

\* ---------------------------------------------------------------- C31

\* get_all has returned: every key whose entry is the one an insert_all of
\* this value type wrote comes back as that value with the entry's version.
C31_RoundTrip ==
  (tablemap.op = "get_all" /\ tablemap.ret.kind = "Ok") =>
    \A i \in DOMAIN tablemap.args :
      LET k == serialize(tablemap.args[i])
      IN  (k \in DOMAIN tablemap.seg.entries /\ tablemap.written[k].type = tablemap.type) =>
            tablemap.ret.val[i] = Some(<<tablemap.written[k].value, tablemap.written[k].version>>)

\* The same for the values whose serialized form is not empty.
C31_RoundTripOfBytes ==
  (tablemap.op = "get_all" /\ tablemap.ret.kind = "Ok") =>
    \A i \in DOMAIN tablemap.args :
      LET k == serialize(tablemap.args[i])
      IN  (k \in DOMAIN tablemap.seg.entries /\ tablemap.written[k].type = tablemap.type /\ serialize(tablemap.written[k].value) # <<>>) =>
            tablemap.ret.val[i] = Some(<<tablemap.written[k].value, tablemap.written[k].version>>)

\* insert_all has succeeded: it returned a version for every pair, and the
\* entry of every key has the version returned for its last pair.
C31_Returned ==
  (tablemap.op = "insert_all" /\ tablemap.ret.kind = "Ok") =>
    /\ Len(tablemap.ret.val) = Len(tablemap.args)
    /\ \A i \in DOMAIN tablemap.args :
         LET k == serialize(tablemap.args[i][1])
         IN  /\ tablemap.written[k].version = tablemap.ret.val[last_entry(insert_all_entries(tablemap.args), k)]
             /\ tablemap.seg.entries[k] = [data |-> serialize(tablemap.written[k].value), version |-> tablemap.written[k].version]

\* The version of a key's last insert does not decrease.
C31_Monotone ==
  \A k \in DOMAIN tablemap.written :
    k \in DOMAIN tablemap'.written /\ tablemap'.written[k].version >= tablemap.written[k].version

\* C31: after insert_all has succeeded, get_all on the same keys returns for
\* each key the value just inserted with the version insert_all returned for
\* it, whatever the value's serialized form, the empty one included, and the
\* versions of a key do not decrease from insert to insert.
C31_InsertThenGet == []C31_RoundTrip /\ []C31_Returned /\ [][C31_Monotone]_vars

\* Without the values of an empty serialized form the round trip holds.
C31_InsertThenGetBytes == []C31_RoundTripOfBytes /\ []C31_Returned /\ [][C31_Monotone]_vars

\* get_all has returned what two inserts of a key left.
C31_WitnessBytes ==
  /\ tablemap.op = "get_all" /\ tablemap.ret.kind = "Ok" /\ tablemap.type = "bool"
  /\ \E i \in DOMAIN tablemap.args : tablemap.ret.val[i] # None /\ tablemap.ret.val[i][1][2] > 0

\* ---------------------------------------------------------------- C32

\* C32: remove is unconditional: when the server has answered, remove has
\* returned Ok(()) whether or not the key had an entry, and the key has no
\* entry afterwards; only a connection error makes it fail.
C32_RemoveIsUnconditional ==
  tablemap.op = "remove" =>
    /\ tablemap.ret \in {Ok(None), ConnectionError}
    /\ tablemap.ret = Ok(None) => serialize(tablemap.args[1]) \notin DOMAIN tablemap.seg.entries

\* remove has returned Ok(()) for a key that had no entry.
C32_Witness == tablemap.op = "remove" /\ tablemap.ret = Ok(None) /\ ~tablemap.existed

\* remove has returned Ok(()) for a key that had an entry.
C32_WitnessExisted == tablemap.op = "remove" /\ tablemap.ret = Ok(None) /\ tablemap.existed

\* remove_conditionally, for contrast, fails on a key without an entry.
C32_WitnessConditional == tablemap.op = "remove_conditionally" /\ tablemap.ret = Err("KeyDoesNotExist")

\* ---------------------------------------------------------------- C33

\* The segment reactor handles the server reply it has taken from the channel.
C33_HandlesReply ==
  /\ reactor.running /\ reactor.taken # None /\ reactor.taken[1].type = "ServerReply"
  /\ reactor' # reactor

C33_Fatal(reply) == reply \in {"SegmentIsSealed", "NoSuchSegment"} \/ reply \notin {"DataAppended", "WrongHost", "SegmentIsSealed", "NoSuchSegment"}

C33_OnReply ==
  C33_HandlesReply =>
    /\ ~reactor'.running <=> C33_Fatal(reactor.taken[1].reply)
    /\ reactor.taken[1].reply \in {"DataAppended", "WrongHost"} => (reactor'.running /\ ~channel'.closed /\ channel'.queue = channel.queue)
    /\ ~reactor'.running =>
         /\ channel'.closed /\ channel'.queue = <<>>
         /\ \A h \in QueuedHandles(channel.queue) : oneshot'[h] = "ReactorClosed"

\* C33: the segment reactor ends on a server reply exactly when the reply is
\* SegmentIsSealed, NoSuchSegment or of a kind it does not know; DataAppended
\* and WrongHost never end it; a reply it does not know is not ignored: the
\* reactor stops, the channel is closed and every AppendEvent that waits on it
\* is failed with ReactorClosed.
C33_FatalRepliesEndTheReactor == [][C33_OnReply]_vars

\* A reply that the open segment's server sent in place of DataAppended has
\* ended the reactor, and an append that waited on the channel was failed.
C33_Witness ==
  /\ ~reactor.running /\ channel.closed /\ ~segstore.sealed /\ hist.faults > 0
  /\ \E h \in DOMAIN oneshot : oneshot[h] = "ReactorClosed"

\* The same for the reply of a sealed segment.
C33_WitnessSealed ==
  /\ ~reactor.running /\ channel.closed /\ segstore.sealed /\ hist.faults = 0
  /\ \E h \in DOMAIN oneshot : oneshot[h] = "ReactorClosed"

\* ---------------------------------------------------------------- C34

\* C34: in the stream reactor every ServerReply taken from the channel names
\* a segment that still has a writer in the selector's map, whatever the
\* order in which the replies for several inflight appends arrive.
C34_ReplyNamesAWriter ==
  (stream.running /\ stream.taken # None /\ stream.taken[1].type = "ServerReply")
    => stream.taken[1].segment \in DOMAIN stream.selector.writers

\* The reactor task has ended in the panic of the lookup of the writer.
C34_Panicked == ~stream.running /\ stream.panicked

\* ---------------------------------------------------------------- C35

\* The segment writer holds no inflight and no pending event.
C35_Drained(w) == w.inflight = <<>> /\ w.pending = <<>>

\* The step in which the reactor takes the first entry off its channel.
C35_ReactorTakes ==
  /\ reactor.running /\ channel.queue # <<>> /\ channel' # channel
  /\ channel'.closed \/ channel'.queue = Tail(channel.queue)

\* The statement as it stands: the reactor that takes CloseReactor ends, for
\* try_close has answered true, exactly when the writer has drained.
C35_OnCloseReactorIff ==
  (C35_ReactorTakes /\ Head(channel.queue).type = "CloseReactor") =>
    (~reactor'.running <=> C35_Drained(reactor.writer))

C35_TrueIffDrained == [][C35_OnCloseReactorIff]_vars

\* What try_close can answer for the reactor's writer: true only for a
\* drained writer, which it leaves as it is; false always with the writer
\* marked as closing and its events kept; never true with events left.
C35_TryClose ==
  reactor.running =>
    /\ \A r \in try_close(reactor.writer) :
         /\ r.ret => (C35_Drained(reactor.writer) /\ r.w = reactor.writer)
         /\ ~r.ret => r.w = [reactor.writer EXCEPT !.closing = TRUE]
    /\ ~C35_Drained(reactor.writer) => \E r \in try_close(reactor.writer) : ~r.ret

\* The reactor calls try_close when it takes CloseReactor: it ends only with
\* a drained writer, and when it runs on the writer is closing and holds the
\* events it held.
C35_OnCloseReactor ==
  (C35_ReactorTakes /\ Head(channel.queue).type = "CloseReactor") =>
    /\ ~reactor'.running => C35_Drained(reactor.writer)
    /\ reactor'.running =>
         /\ reactor'.writer = [reactor.writer EXCEPT !.closing = TRUE]
         /\ ~channel'.closed

\* After try_close has answered false the reactor ends by closing only when
\* it takes the CloseSegmentWriter with close_reactor set of the drained
\* writer; the other ends are the fatal replies of the server.
C35_WhileClosing ==
  (C35_ReactorTakes /\ reactor.writer.closing /\ ~reactor'.running) =>
    \/ /\ Head(channel.queue) = CloseSegmentWriter(TRUE)
       /\ C35_Drained(reactor.writer)
    \/ /\ Head(channel.queue).type = "ServerReply"
       /\ Head(channel.queue).reply \notin {"DataAppended", "WrongHost"}

\* C35: try_close returns true only if both the inflight and the pending
\* queue of the writer are empty; with an event left, and possibly also
\* without one, it marks the writer as closing and returns false, and the
\* reactor then ends by closing only after the writer has drained and its
\* CloseSegmentWriter with close_reactor set has been processed.
C35_TryCloseDefers ==
  []C35_TryClose /\ [][C35_OnCloseReactor /\ C35_WhileClosing]_vars

\* try_close has answered false to a writer with an event in flight, the
\* event has been acknowledged since, and the CloseSegmentWriter of the
\* drained writer waits on the channel.
C35_Witness ==
  /\ reactor.running /\ reactor.writer.closing /\ C35_Drained(reactor.writer)
  /\ conn.state = "closed" /\ channel.queue = <<CloseSegmentWriter(TRUE)>>
  /\ hist.writes > 0 /\ \A h \in DOMAIN oneshot : oneshot[h] = "Ok"

\* try_close has answered false to a writer that had drained already.
C35_WitnessDrained ==
  /\ reactor.running /\ reactor.writer.closing /\ C35_Drained(reactor.writer)
  /\ hist.writes = 0 /\ bsw.pc = "dropped"

\* ---------------------------------------------------------------- C36

\* A seek has returned without success: with an error, or in the panic of
\* an addition that overflowed.
C36_SeekFailed == bsr' # bsr /\ bsr'.op = "seek" /\ bsr'.ret.kind # "Ok"

C36_OffsetKept == C36_SeekFailed => bsr'.offset = bsr.offset

\* C36: a seek that returns an error leaves the reader's offset as it was
\* before the call, for every SeekFrom variant and also when fetching the
\* tail of the segment fails.
C36_FailedSeekKeepsOffset == [][C36_OffsetKept]_vars

\* A reader away from the start whose seek(Start(o)) beyond the tail failed.
C36_Witness ==
  /\ bsr.op = "seek" /\ bsr.pos.kind = "Start" /\ bsr.pos.arg > bsr.tail
  /\ bsr.ret = IoErr("Seek offset that exceeds segment length") /\ bsr.offset = 2

\* The same for Current(d), for End(d) and for a tail that was not fetched.
C36_WitnessCurrent ==
  /\ bsr.op = "seek" /\ bsr.pos = SeekFromCurrent(-3)
  /\ bsr.ret = IoErr("Cannot seek to a negative offset") /\ bsr.offset = 2

C36_WitnessEnd ==
  /\ bsr.op = "seek" /\ bsr.pos = SeekFromEnd(1)
  /\ bsr.ret = IoErr("Seek offset that exceeds segment length") /\ bsr.offset = 2

C36_WitnessNotFetched ==
  /\ bsr.op = "seek" /\ bsr.ret = IoErr("fetch_current_segment_length") /\ bsr.offset = 2

\* ---------------------------------------------------------------- C37

\* C37: the reader's offset is never negative and, right after a successful
\* seek, it is at most the tail fetched for that seek; for every u64
\* argument of Start, also those above i64::MAX, and every i64 argument of
\* Current and End.
C37_OffsetInRange ==
  /\ bsr.offset >= 0
  /\ (bsr.op = "seek" /\ bsr.ret.kind = "Ok") => bsr.offset <= bsr.tail

\* The same for the seeks whose Start argument is an i64 that is not negative.
C37_OffsetInRangeUpToI64Max ==
  [][(bsr.offset >= 0 /\ bsr' # bsr /\ bsr'.op = "seek" /\ (bsr'.pos.kind = "Start" => bsr'.pos.arg <= I64_MAX))
       => /\ bsr'.offset >= 0
          /\ bsr'.ret.kind = "Ok" => bsr'.offset <= bsr'.tail]_vars

\* ---------------------------------------------------------------- C38

\* The segments of the group that are assigned to a reader or unassigned.
C38_Segments(map) ==
  UNION {DOMAIN map[ASSIGNED][r] : r \in DOMAIN map[ASSIGNED]} \cup {from_str(k) : k \in DOMAIN map[UNASSIGNED]}

\* In how many places a segment is held: the readers that own it, and
\* unassigned.
C38_Places(map, s) ==
  Cardinality({r \in DOMAIN map[ASSIGNED] : s \in DOMAIN map[ASSIGNED][r]})
    + (IF to_string(s) \in DOMAIN map[UNASSIGNED] THEN 1 ELSE 0)

C38_Moves == {"add_reader", "remove_reader", "assign_segment_to_reader", "release_segment", "update_reader_positions"}

C38_Step ==
  /\ last'.op \in C38_Moves =>
       /\ C38_Segments(table') = C38_Segments(table)
       /\ \A s \in AllSegments : C38_Places(table', s) = C38_Places(table, s)
  /\ C38_Segments(table') # C38_Segments(table) => (last'.op = "segment_completed" /\ last'.ret.kind = "Ok")

\* C38: add_reader, remove_reader, assign_segment_to_reader, release_segment
\* and update_reader_positions leave the set of the segments that are
\* assigned or unassigned as it is: no segment is created, held once more or
\* lost; only segment_completed changes the set.
C38_OnlyCompletionChangesTheSegments == [][C38_Step]_vars

\* remove_reader has taken a reader offline while another stays online,
\* and the segments 1 and 2 are unassigned.
C38_Witness ==
  /\ last.op = "remove_reader" /\ last.ret.kind = "Ok" /\ last.reader \notin DOMAIN table[ASSIGNED]
  /\ {to_string(SegmentWithRangeOf(1)), to_string(SegmentWithRangeOf(2))} \subseteq DOMAIN table[UNASSIGNED]
  /\ \E r \in DOMAIN table[ASSIGNED] : TRUE

\* segment_completed has changed the set: the completed segment has left it.
C38_WitnessCompleted ==
  /\ last.op = "segment_completed" /\ last.ret.kind = "Ok"
  /\ C38_Segments(table) = {}

\* ---------------------------------------------------------------- C39

\* The mutations that need their reader online.
C39_Mutations == {"remove_reader", "assign_segment_to_reader", "release_segment", "update_reader_positions", "segment_completed"}

\* What each of them answers for reader on the table, for every argument
\* the caller can give.
C39_Results(reader) ==
  LET t == TableNew(table)
  IN  {update_reader_positions_internal(t, reader, positions) : positions \in SmallMaps(KnownSegments(table), Offsets)}
        \cup {remove_reader_internal(t, reader, owned) : owned \in SmallMaps({s.scoped_segment : s \in KnownSegments(table)}, Offsets)}
        \cup {assign_segment_to_reader_internal(t, reader, pick) : pick \in AllSegments}
        \cup {release_segment_internal(t, reader, s, offset) : s \in ScopedSegments, offset \in Offsets}
        \cup {segment_completed_internal(t, reader, c, SuccessorsOf(c)) : c \in AllSegments}

\* For a reader without an assigned_segments row each of them returns the
\* error with nothing staged.
C39_NothingStaged ==
  \A reader \in Readers \ Online :
    \A res \in C39_Results(reader) :
      /\ res.ret = Err("reader is not online")
      /\ res.table.insert = {} /\ res.table.map = table

\* The step of such a mutation returns the error and leaves the table.
C39_Step ==
  (last'.op \in C39_Mutations /\ last'.reader \notin Online) =>
    (last'.ret = Err("reader is not online") /\ table' = table)

\* C39: remove_reader, assign_segment_to_reader, release_segment,
\* update_reader_positions and segment_completed for a reader without an
\* assigned_segments row return the "reader is not online" error and stage
\* no insert and no tombstone, so the table is unchanged.
C39_OfflineReaderIsRefused == []C39_NothingStaged /\ [][C39_Step]_vars

\* release_segment for a reader that is not online was refused, while
\* another reader owns a segment.
C39_Witness ==
  /\ last.op = "release_segment" /\ last.reader \notin Online /\ last.ret = Err("reader is not online")
  /\ \E r \in Online : table[ASSIGNED][r] # EmptyMap

\* The same for segment_completed, with an unassigned segment left.
C39_WitnessCompleted ==
  /\ last.op = "segment_completed" /\ last.reader \notin Online /\ last.ret = Err("reader is not online")
  /\ DOMAIN table[UNASSIGNED] # {}

\* ---------------------------------------------------------------- C40

\* The table as the first handle's new leaves it: the stream, the config and
\* the initial segments, all unassigned.
C40_Initialized(map) ==
  /\ DEFAULT_INNER_KEY \in DOMAIN map[SCOPED_SYNCHRONIZER_STREAM]
  /\ DEFAULT_INNER_KEY \in DOMAIN map[CONFIG]

C40_Step ==
  last'.op = "new" =>
    IF table = EmptyTable
    THEN /\ C40_Initialized(table')
         /\ table'[ASSIGNED] = EmptyMap /\ table'[FUTURE] = EmptyMap /\ table'[DISTANCE] = EmptyMap
         /\ \A k \in DOMAIN table'[UNASSIGNED] : k = to_string(SegmentWithRangeOf(0))
    ELSE table' = table

\* A table that was initialized is never empty again, and every handle that
\* exists has seen it initialized.
C40_StaysInitialized ==
  /\ (table # EmptyTable \/ Created # {}) => C40_Initialized(table)
  /\ \A h \in Created : C40_Initialized(cache[h])

\* C40: creating a ReaderGroupState handle initializes the shared table
\* (stream, config and the initial unassigned segments with their offsets)
\* only when the table is empty; creating further handles on an initialized
\* table, in any order or at the same time, changes nothing, so that no
\* assignment and no position is reset.
C40_NewInitializesOnce == []C40_StaysInitialized /\ [][C40_Step]_vars

\* The handle r2 was created after r1 had initialized the table, had been
\* assigned the segment and had moved its position: all is as it was.
C40_Witness ==
  /\ last = [op |-> "new", reader |-> "r2", ret |-> Ok(None)]
  /\ table[SCOPED_SYNCHRONIZER_STREAM][DEFAULT_INNER_KEY] = "r1"
  /\ "r1" \in DOMAIN table[ASSIGNED]
  /\ SegmentWithRangeOf(0) \in DOMAIN table[ASSIGNED]["r1"]
  /\ table[ASSIGNED]["r1"][SegmentWithRangeOf(0)] = OffsetNew(0, 1)
  /\ table[UNASSIGNED] = EmptyMap
  /\ cache["r2"] = table

====
